---- MODULE Spec2Model ----
(***************************************************************************)
(* Host-side preimage oracle: the HTTP preimage server (/dehash/, /hint/), *)
(* the Prefetcher (Hint, GetPreimage, prefetch, parseHint) and the local   *)
(* preimage source, as a state machine over a shared key-value store.      *)
(*                                                                         *)
(* Bytes are integers 0..255, byte strings are sequences of bytes, keys    *)
(* and hashes are byte strings of length HashLength, and hints and request *)
(* paths are strings.                                                      *)
(***************************************************************************)
EXTENDS Integers, Sequences, FiniteSets, TLC

\* ------------------------------------------------------------------------
\* Bounds of the model
\* ------------------------------------------------------------------------

\* Number of HTTP requests the clients issue in one behaviour.
MaxRequests == 3

\* Number of field elements of a blob (params.BlobTxFieldElementsPerBlob,
\* 4096 in the build, scaled down here).
FieldElementsPerBlob == 2

\* Number of transactions (and receipts) of the L1 block the upstream serves.
MaxTxs == 2

\* Number of I/O errors the disk store raises in one behaviour.
MaxFaults == 1

\* Number of times a prefetch run on its own is repeated.
MaxRuns == 2

\* Number of attempts the retrying upstream makes before it gives up.
MaxAttempts == 3

\* StartMonitoring calls made on one game monitor.
MaxStarts == 2

\* The latest instant of the monitor's clock and the longest game window, in
\* half seconds.
MaxNow == 7

MaxWindow == 5

\* The claims a dispute game holds.
MaxClaims == 2

\* ------------------------------------------------------------------------
\* Program constants
\* ------------------------------------------------------------------------

\* common.HashLength
HashLength == 32

\* Type tags of a preimage key (first byte of the key).
LocalKeyType == 1
Keccak256KeyType == 2
Sha256KeyType == 3
BlobKeyType == 4
KZGPointEvaluationKeyType == 6

\* client.L1HeadLocalIndex
L1HeadLocalIndex == 1

\* HTTP status codes written by the handlers. NoResponse stands for a
\* handler that panicked: net/http recovers, logs and closes the connection
\* without writing a status.
StatusOK == 200
StatusBadRequest == 400
StatusNotFound == 404
NoResponse == 0

\* l1.HintL1BlockHeader and the other hint types.
HintL1BlockHeader == "l1-block-header"
HintL1Transactions == "l1-transactions"
HintL1Receipts == "l1-receipts"
HintL1Blob == "l1-blob"
HintL1KZGPointEvaluation == "l1-kzg-point-evaluation"

\* Errors, by the name the code gives them.
NoErr == "nil"
ErrNotFound == "ErrNotFound"

\* ------------------------------------------------------------------------
\* Strings and bytes
\* ------------------------------------------------------------------------

Min(a, b) == IF a < b THEN a ELSE b

\* The 1-character string at (1-based) position i of s.
CharAt(s, i) == SubSeq(s, i, i)

\* s[from:] of Go, from 0-based.
StrFrom(s, from) == SubSeq(s, from + 1, Len(s))

\* strings.Contains(s, sub)
StringsContains(s, sub) ==
    \E i \in 0..(Len(s) - Len(sub)) : SubSeq(s, i + 1, i + Len(sub)) = sub

\* strings.Cut(s, sep) for a 1-character sep: before, after, found.
StringsCut(s, sep) ==
    LET hits == {i \in 1..Len(s) : CharAt(s, i) = sep}
    IN  IF hits = {}
        THEN [before |-> s, after |-> "", found |-> FALSE]
        ELSE LET i == CHOOSE j \in hits : \A k \in hits : j <= k
             IN  [before |-> SubSeq(s, 1, i - 1),
                  after  |-> SubSeq(s, i + 1, Len(s)),
                  found  |-> TRUE]

HexDigits == <<"0", "1", "2", "3", "4", "5", "6", "7",
               "8", "9", "a", "b", "c", "d", "e", "f">>

UpperHexDigits == <<"0", "1", "2", "3", "4", "5", "6", "7",
                    "8", "9", "A", "B", "C", "D", "E", "F">>

IsHexChar(c) == \E v \in 1..16 : HexDigits[v] = c \/ UpperHexDigits[v] = c

\* The value 0..15 of a hex character (fromHexChar of encoding/hex).
FromHexChar(c) ==
    (CHOOSE v \in 1..16 : HexDigits[v] = c \/ UpperHexDigits[v] = c) - 1

\* hex.EncodeToString
RECURSIVE HexEncodeFrom(_, _)
HexEncodeFrom(b, i) ==
    IF i > Len(b) THEN ""
    ELSE HexDigits[(b[i] \div 16) + 1] \o HexDigits[(b[i] % 16) + 1]
         \o HexEncodeFrom(b, i + 1)

HexEncode(b) == HexEncodeFrom(b, 1)

\* The bytes of the leading hex pairs of s (what hex.Decode has written when
\* it stops or ends).
HexPairs(s) ==
    LET pairs == 1..(Len(s) \div 2)
        good  == {k \in pairs : \A j \in 1..(2 * k) : IsHexChar(CharAt(s, j))}
    IN  [k \in good |->
            FromHexChar(CharAt(s, 2 * k - 1)) * 16 + FromHexChar(CharAt(s, 2 * k))]

\* Every character of s is a hex digit and s has an even length.
IsHex(s) == Len(s) % 2 = 0 /\ \A i \in 1..Len(s) : IsHexChar(CharAt(s, i))

\* hex.DecodeString(s): the bytes, and whether it returned an error
\* (InvalidByteError or ErrLength).
HexDecodeString(s) ==
    IF IsHex(s) THEN [bytes |-> HexPairs(s), err |-> NoErr]
    ELSE [bytes |-> HexPairs(s), err |-> "hex"]

\* hexutil.Decode(input): 0x-prefixed hex.
HexutilDecode(input) ==
    IF Len(input) = 0 THEN [bytes |-> <<>>, err |-> "empty hex string"]
    ELSE IF ~(Len(input) >= 2 /\ CharAt(input, 1) = "0"
              /\ CharAt(input, 2) \in {"x", "X"})
    THEN [bytes |-> <<>>, err |-> "hex string without 0x prefix"]
    ELSE HexDecodeString(StrFrom(input, 2))

\* binary.BigEndian.Uint64 is read off the hint and written into the blob
\* key; 8 bytes, most significant first.
RECURSIVE BigEndianUpTo(_, _)
BigEndianUpTo(b, n) ==
    IF n = 0 THEN 0 ELSE BigEndianUpTo(b, n - 1) * 256 + b[n]

BigEndianUint64(b) == BigEndianUpTo(b, Len(b))

\* binary.BigEndian.PutUint64 for the values the model uses (below 2^16).
PutUint64(v) == <<0, 0, 0, 0, 0, 0, (v \div 256) % 256, v % 256>>

Zeros(n) == [i \in 1..n |-> 0]

\* ------------------------------------------------------------------------
\* Digests (go-ethereum crypto, crypto/sha256): abstract 32-byte digests,
\* deterministic in the input and different for the inputs of the model.
\* ------------------------------------------------------------------------

RECURSIVE ByteSum(_, _, _)
ByteSum(b, j, w) ==
    IF j > Len(b) THEN 0 ELSE (b[j] * (IF w THEN j ELSE 1)) + ByteSum(b, j + 1, w)

Digest(b, salt) ==
    LET s1 == ByteSum(b, 1, FALSE)
        s2 == ByteSum(b, 1, TRUE)
    IN  [i \in 1..HashLength |->
            (s1 * (i + 1) + s2 * 3 + Len(b) * 5 + i * 11 + salt) % 256]

\* crypto.Keccak256Hash
Keccak256Hash(b) == Digest(b, 0)

\* sha256.Sum256
Sha256Sum(b) == Digest(b, 97)

\* ------------------------------------------------------------------------
\* Preimage key scheme (op-preimage): the first byte of the digest is
\* replaced by the type tag.
\* ------------------------------------------------------------------------

WithTag(h, tag) == [h EXCEPT ![1] = tag]

\* preimage.Keccak256Key(hash).PreimageKey()
Keccak256Key(h) == WithTag(h, Keccak256KeyType)

\* preimage.Sha256Key(hash).PreimageKey()
Sha256Key(h) == WithTag(h, Sha256KeyType)

\* preimage.BlobKey(hash).PreimageKey()
BlobKey(h) == WithTag(h, BlobKeyType)

\* preimage.KZGPointEvaluationKey(hash).PreimageKey()
KZGPointEvaluationKey(h) == WithTag(h, KZGPointEvaluationKeyType)

\* preimage.LocalIndexKey(i).PreimageKey(): tag 1, then the big-endian index.
LocalIndexKey(i) == WithTag(Zeros(HashLength - 8) \o PutUint64(i), LocalKeyType)

\* l1HeadKey of the local preimage source.
l1HeadKey == LocalIndexKey(L1HeadLocalIndex)

\* ------------------------------------------------------------------------
\* The L1 chain and beacon data the upstream nodes serve
\* ------------------------------------------------------------------------

\* The canonical RLP of the header of the L1 block of the model, and the
\* block's hash.
HeaderRLP1 == <<249, 2, 17, 160, 1>>

BlockHash1 == Keccak256Hash(HeaderRLP1)

\* A header that is not the one BlockHash1 is the hash of.
HeaderRLP2 == <<249, 2, 17, 160, 2>>

\* A block hash no upstream node knows.
UnknownHash == Keccak256Hash(<<7, 7>>)

\* The transactions and receipts of the block: a type byte and a payload.
BlockTxs == [i \in 1..MaxTxs |-> [type |-> 2, payload |-> <<200 + i, i>>]]

BlockReceipts == [i \in 1..MaxTxs |-> [type |-> 2, payload |-> <<1, 100 + i>>]]

\* The blob sidecar of the model: KZG commitment (48 bytes) and blob
\* (32 bytes a field element).
KZGCommitment1 == [i \in 1..48 |-> (i * 3 + 1) % 256]

Blob1 == [i \in 1..(32 * FieldElementsPerBlob) |-> (i * 7 + 3) % 256]

Sidecar1 == [KZGCommitment |-> KZGCommitment1, Blob |-> Blob1]

\* The versioned hash of the commitment (0x01, then sha256 of it).
BlobVersionHash1 == WithTag(Sha256Sum(KZGCommitment1), 1)

BlobIndex1 == 0

BlobTimestamp1 == 12

\* How an upstream node answers a call: "ok" with the data it holds, "down"
\* with an error (after the retries of the retrying wrapper); a beacon node
\* may also answer with no sidecar or with two.
L1Modes == {"ok", "down"}

BeaconModes == {"ok", "down", "nosidecar", "twosidecars"}

\* With cfg.L1TrustRPC the L1 client is built to trust the RPC node and
\* skips the check of a fetched header against the requested hash:
\* "unverified" is such a node answering with a header whose hash is not the
\* requested one. (Without the flag the client turns that answer into an
\* error: "down".)
TrustedModes == {"unverified"}

UpstreamModes == L1Modes \cup BeaconModes \cup TrustedModes

\* L1Source.InfoByHash behind the retrying wrapper.
InfoByHash(up, hash) ==
    IF up = "down" \/ hash # BlockHash1
    THEN [err |-> "upstream", header |-> <<>>]
    ELSE IF up = "unverified" THEN [err |-> NoErr, header |-> HeaderRLP2]
    ELSE [err |-> NoErr, header |-> HeaderRLP1]

\* L1Source.InfoAndTxsByHash
InfoAndTxsByHash(up, hash) ==
    IF up = "down" \/ hash # BlockHash1
    THEN [err |-> "upstream", txs |-> <<>>]
    ELSE [err |-> NoErr, txs |-> BlockTxs]

\* L1Source.FetchReceipts
FetchReceipts(up, hash) ==
    IF up = "down" \/ hash # BlockHash1
    THEN [err |-> "upstream", receipts |-> <<>>]
    ELSE [err |-> NoErr, receipts |-> BlockReceipts]

\* L1BlobSource.GetBlobSidecars for one indexed blob hash.
GetBlobSidecars(up, time, hash, index) ==
    IF up = "down" \/ hash # BlobVersionHash1 \/ index # BlobIndex1
       \/ time # BlobTimestamp1
    THEN [err |-> "upstream", sidecars |-> <<>>]
    ELSE IF up = "nosidecar" THEN [err |-> NoErr, sidecars |-> <<>>]
    ELSE IF up = "twosidecars"
    THEN [err |-> NoErr, sidecars |-> <<Sidecar1, Sidecar1>>]
    ELSE [err |-> NoErr, sidecars |-> <<Sidecar1>>]

\* The inputs the KZG point evaluation precompile accepts (it checks the
\* length and the proof itself).
ValidKZGInput == <<1, 192, 5>>

\* A precompile that accepts every input.
PrecompileRunAccepts(input) == NoErr

\* precompile.Run(input): nil error or not.
PrecompileRun(input) == IF input = ValidKZGInput THEN NoErr ELSE "kzg"

\* ------------------------------------------------------------------------
\* The key-value store (kvstore.KV): a map from keys to values
\* ------------------------------------------------------------------------

EmptyKV == <<>>

\* kv.Get(key): the value, or ErrNotFound, or an I/O error of the disk
\* store when ioerr.
KVGet(kv, key, ioerr) ==
    IF ioerr THEN [pre |-> <<>>, err |-> "io"]
    ELSE IF key \in DOMAIN kv THEN [pre |-> kv[key], err |-> NoErr]
    ELSE [pre |-> <<>>, err |-> ErrNotFound]

\* kv.Put(key, value)
KVPut(kv, key, value) ==
    [k \in (DOMAIN kv) \cup {key} |-> IF k = key THEN value ELSE kv[k]]

\* A run of Put calls in program order that stops at the first failing one:
\* the failAt-th Put returns an I/O error (0: none fails).
PutAll(kv, puts, failAt) ==
    LET done == IF failAt = 0 THEN Len(puts) ELSE failAt - 1
        last(k) == CHOOSE i \in 1..done :
                       /\ puts[i].key = k
                       /\ \A j \in (i + 1)..done : puts[j].key # k
    IN  [kv  |-> [k \in (DOMAIN kv) \cup {puts[i].key : i \in 1..done} |->
                    IF \E i \in 1..done : puts[i].key = k
                    THEN puts[last(k)].value
                    ELSE kv[k]],
         err |-> IF failAt = 0 THEN NoErr ELSE "io"]

\* ------------------------------------------------------------------------
\* Prefetcher
\* ------------------------------------------------------------------------

\* A parseHint that takes a hint with no separator as a type with an empty
\* payload.
parseHintNoSeparator(hint) ==
    LET cut == StringsCut(hint, " ")
        dec == HexutilDecode(cut.after)
    IN  IF cut.found /\ dec.err # NoErr
        THEN [hintType |-> "", hintBytes |-> <<>>, err |-> "invalid bytes"]
        ELSE [hintType |-> cut.before, hintBytes |-> dec.bytes, err |-> NoErr]

\* parseHint(hint): the hint type, the bytes and the error.
parseHint(hint) ==
    LET cut == StringsCut(hint, " ")
    IN  IF ~cut.found
        THEN [hintType |-> "", hintBytes |-> <<>>, err |-> "unsupported hint"]
        ELSE LET dec == HexutilDecode(cut.after)
             IN  IF dec.err # NoErr
                 THEN [hintType |-> "", hintBytes |-> <<>>, err |-> "invalid bytes"]
                 ELSE [hintType |-> cut.before, hintBytes |-> dec.bytes,
                       err |-> NoErr]

\* eth.EncodeTransactions / eth.EncodeReceipts: the opaque (typed envelope)
\* encoding of each item.
EncodeItems(items) ==
    [i \in 1..Len(items) |-> <<items[i].type>> \o items[i].payload]

\* mpt.WriteTrie(values): the nodes of the trie over index -> value. A leaf
\* carries its index and value; with several values a branch node carries
\* the hashes of the leaves and is the root.
TrieLeaf(i, v) == <<32 + i>> \o v

RECURSIVE ConcatHashes(_)
ConcatHashes(nodes) ==
    IF nodes = <<>> THEN <<>>
    ELSE Keccak256Hash(Head(nodes)) \o ConcatHashes(Tail(nodes))

WriteTrie(values) ==
    LET leaves == [i \in 1..Len(values) |-> TrieLeaf(i - 1, values[i])]
    IN  IF Len(values) = 0 THEN <<>>
        ELSE IF Len(values) = 1 THEN leaves
        ELSE <<(<<17>> \o ConcatHashes(leaves))>> \o leaves

\* A storeTrieNodes that leaves out the first node WriteTrie returns.
storeTrieNodesButFirst(values) ==
    LET nodes == Tail(WriteTrie(values))
    IN  [i \in 1..Len(nodes) |->
            [key |-> Keccak256Key(Keccak256Hash(nodes[i])), value |-> nodes[i]]]

\* The Put calls of Prefetcher.storeTrieNodes(values), in program order.
storeTrieNodes(values) ==
    LET nodes == WriteTrie(values)
    IN  [i \in 1..Len(nodes) |->
            [key |-> Keccak256Key(Keccak256Hash(nodes[i])), value |-> nodes[i]]]

\* Prefetcher.storeTransactions(txs)
storeTransactions(txs) == storeTrieNodes(EncodeItems(txs))

\* Prefetcher.storeReceipts(receipts)
storeReceipts(receipts) == storeTrieNodes(EncodeItems(receipts))

\* A blob key that leaves the index of the field element out.
FieldElementKeyNoIndex(commitment, i) == commitment \o Zeros(32)

\* The 80-byte blob key of field element i: commitment, 24 zero bytes, the
\* index as a big-endian uint64.
FieldElementKey(commitment, i) == commitment \o Zeros(24) \o PutUint64(i)

\* The Put calls of the l1-blob case in program order: the commitment under
\* the sha256 key of the versioned hash, then two Puts a field element.
BlobPuts(blobVersionHash, sidecar) ==
    <<[key |-> Sha256Key(blobVersionHash), value |-> sidecar.KZGCommitment]>>
    \o [n \in 1..(2 * FieldElementsPerBlob) |->
          LET i == (n - 1) \div 2
              blobKey == FieldElementKey(sidecar.KZGCommitment, i)
              blobKeyHash == Keccak256Hash(blobKey)
          IN  IF n % 2 = 1
              THEN [key |-> Keccak256Key(blobKeyHash), value |-> blobKey]
              ELSE [key |-> BlobKey(blobKeyHash),
                    value |-> SubSeq(sidecar.Blob, 32 * i + 1, 32 * (i + 1))]]

\* A header Put under the block hash as it is, without the key type.
HeaderPutsUntagged(hash, data) == <<[key |-> hash, value |-> data]>>

\* The Put of the l1-block-header case (line 106): the header's RLP under
\* the keccak key of the hinted block hash.
HeaderPuts(hash, data) == <<[key |-> Keccak256Key(hash), value |-> data]>>

\* What Prefetcher.prefetch(ctx, hint) does up to its Put calls, with the
\* upstream in mode up: the error it returns before any Put (or nil), the
\* upstream calls it makes, the Put calls it goes on to make in program
\* order, and the text it wraps a failing Put's error in.
Fail(err, calls) == [err |-> err, calls |-> calls, puts |-> <<>>, wrap |-> ""]

Puts(puts, calls, wrap) ==
    [err |-> NoErr, calls |-> calls, puts |-> puts, wrap |-> wrap]

\* A check of the sidecars that takes the first of several.
NotOneSidecarIfNone(sidecars) == Len(sidecars) = 0

\* len(sidecars) != 1
NotOneSidecar(sidecars) == Len(sidecars) # 1

\* A length check that lets a payload longer than n through.
WrongLengthIfShorter(hintBytes, n) == Len(hintBytes) < n

\* len(hintBytes) != n
WrongLength(hintBytes, n) == Len(hintBytes) # n

\* The statements of prefetch after parseHint (lines 87-186): p is what
\* parseHint returned.
prefetchParsed(p, hintBytes, up) ==
        IF p.err # NoErr THEN Fail(p.err, 0)
        ELSE IF p.hintType = HintL1BlockHeader THEN
            IF WrongLength(hintBytes, 32) THEN Fail("invalid L1 block hint", 0)
            ELSE LET f == InfoByHash(up, hintBytes)
                 IN  IF f.err # NoErr
                     THEN Fail("failed to fetch L1 block header", 1)
                     ELSE Puts(HeaderPuts(hintBytes, f.header), 1, "")
        ELSE IF p.hintType = HintL1Transactions THEN
            IF WrongLength(hintBytes, 32)
            THEN Fail("invalid L1 transactions hint", 0)
            ELSE LET f == InfoAndTxsByHash(up, hintBytes)
                 IN  IF f.err # NoErr
                     THEN Fail("failed to fetch L1 block txs", 1)
                     ELSE Puts(storeTransactions(f.txs), 1,
                               "failed to store node: ")
        ELSE IF p.hintType = HintL1Receipts THEN
            IF WrongLength(hintBytes, 32) THEN Fail("invalid L1 receipts hint", 0)
            ELSE LET f == FetchReceipts(up, hintBytes)
                 IN  IF f.err # NoErr
                     THEN Fail("failed to fetch L1 block receipts", 1)
                     ELSE Puts(storeReceipts(f.receipts), 1,
                               "failed to store node: ")
        ELSE IF p.hintType = HintL1Blob THEN
            IF WrongLength(hintBytes, 48) THEN Fail("invalid blob hint", 0)
            ELSE LET blobVersionHash == SubSeq(hintBytes, 1, 32)
                     blobHashIndex == BigEndianUint64(SubSeq(hintBytes, 33, 40))
                     refTimestamp == BigEndianUint64(SubSeq(hintBytes, 41, 48))
                     f == GetBlobSidecars(up, refTimestamp, blobVersionHash,
                                          blobHashIndex)
                 IN  IF f.err # NoErr \/ NotOneSidecar(f.sidecars)
                     THEN Fail("failed to fetch blob sidecars", 1)
                     ELSE Puts(BlobPuts(blobVersionHash, f.sidecars[1]), 1, "")
        ELSE IF p.hintType = HintL1KZGPointEvaluation THEN
            LET result == IF PrecompileRun(hintBytes) = NoErr THEN <<1>> ELSE <<0>>
                inputHash == Keccak256Hash(hintBytes)
            IN  Puts(<<[key |-> Keccak256Key(inputHash), value |-> hintBytes],
                       [key |-> KZGPointEvaluationKey(inputHash),
                        value |-> result]>>, 0, "")
        ELSE Fail("unknown hint type: " \o p.hintType, 0)

prefetchWith(p, up) == prefetchParsed(p, p.hintBytes, up)

prefetchPlan(hint, up) == prefetchWith(parseHint(hint), up)

\* A loop condition under which a miss is returned with no prefetch.
LoopConditionNoPrefetch(err, hint) == FALSE

\* A loop condition that retries on every miss, recorded hint or not.
LoopConditionAnyMiss(err, hint) == err = ErrNotFound

\* The loop condition of GetPreimage (line 73).
LoopCondition(err, hint) == err = ErrNotFound /\ hint # ""

\* A GetPreimage that reports a failed prefetch as a missing key.
PrefetchFailedAsMiss(err) == ErrNotFound

\* The error GetPreimage returns when prefetch fails (line 76).
PrefetchFailed(err) == "prefetch failed: " \o err

\* ------------------------------------------------------------------------
\* Local preimage source
\* ------------------------------------------------------------------------

\* A local source that answers every key of the local type with the L1 head.
LocalPreimageSourceGetAnyIndex(config, key) ==
    IF key[1] = LocalKeyType THEN [pre |-> config.L1Head, err |-> NoErr]
    ELSE [pre |-> <<>>, err |-> ErrNotFound]

\* LocalPreimageSource.Get(key)
LocalPreimageSourceGet(config, key) ==
    IF key = l1HeadKey THEN [pre |-> config.L1Head, err |-> NoErr]
    ELSE [pre |-> <<>>, err |-> ErrNotFound]

\* ------------------------------------------------------------------------
\* Configuration
\* ------------------------------------------------------------------------

ZeroHash == Zeros(HashLength)

\* A FetchingEnabled that holds of every configuration.
FetchingAlwaysEnabled(config) == TRUE

\* Config.FetchingEnabled()
FetchingEnabled(config) == config.L1URL # ""

\* A Check that looks at the data directory before the L1 head.
ConfigCheckDataDirFirst(config) ==
    IF ~FetchingEnabled(config) /\ config.DataDir = "" THEN "ErrDataDirRequired"
    ELSE IF config.L1Head = ZeroHash THEN "ErrInvalidL1Head"
    ELSE IF config.ServerMode /\ config.ExecCmd # "" THEN "ErrNoExecInServerMode"
    ELSE NoErr

\* Config.Check()
ConfigCheck(config) ==
    IF config.L1Head = ZeroHash THEN "ErrInvalidL1Head"
    ELSE IF ~FetchingEnabled(config) /\ config.DataDir = "" THEN "ErrDataDirRequired"
    ELSE IF config.ServerMode /\ config.ExecCmd # "" THEN "ErrNoExecInServerMode"
    ELSE NoErr

\* The configurations a process may be started with.
Configs ==
    [L1Head : {BlockHash1, ZeroHash}, L1URL : {"", "http://l1"},
     DataDir : {"", "/data"}, ServerMode : {TRUE}, ExecCmd : {"", "client"}]

\* ------------------------------------------------------------------------
\* The requests of the clients
\* ------------------------------------------------------------------------

Clients == {"c1", "c2"}

\* Well-formed hints.
HeaderHint == HintL1BlockHeader \o " 0x" \o HexEncode(BlockHash1)

TransactionsHint == HintL1Transactions \o " 0x" \o HexEncode(BlockHash1)

ReceiptsHint == HintL1Receipts \o " 0x" \o HexEncode(BlockHash1)

BlobHint ==
    HintL1Blob \o " 0x"
    \o HexEncode(BlobVersionHash1 \o PutUint64(BlobIndex1)
                 \o PutUint64(BlobTimestamp1))

GarbageKZGInput == <<222, 173>>

KZGHint == HintL1KZGPointEvaluation \o " 0x" \o HexEncode(GarbageKZGInput)

ValidKZGHint == HintL1KZGPointEvaluation \o " 0x" \o HexEncode(ValidKZGInput)

\* Hints of a recognised type whose payload has not the length of the type:
\* 31 bytes, 33 bytes and none for a block hash, 40 and 49 bytes for a blob.
ShortHeaderHint ==
    HintL1BlockHeader \o " 0x" \o HexEncode(SubSeq(BlockHash1, 1, 31))

LongTransactionsHint ==
    HintL1Transactions \o " 0x" \o HexEncode(BlockHash1 \o <<0>>)

EmptyReceiptsHint == HintL1Receipts \o " 0x"

ShortBlobHint ==
    HintL1Blob \o " 0x" \o HexEncode(BlobVersionHash1 \o PutUint64(BlobIndex1))

\* A blob hint for the versioned hash of the model at another index.
OtherIndexBlobHint ==
    HintL1Blob \o " 0x"
    \o HexEncode(BlobVersionHash1 \o PutUint64(BlobIndex1 + 1)
                 \o PutUint64(BlobTimestamp1))

LongBlobHint ==
    HintL1Blob \o " 0x"
    \o HexEncode(BlobVersionHash1 \o PutUint64(BlobIndex1)
                 \o PutUint64(BlobTimestamp1) \o <<0>>)

WrongLengthHints ==
    {ShortHeaderHint, LongTransactionsHint, EmptyReceiptsHint, ShortBlobHint,
     LongBlobHint}

\* Hints of the type whose payload may be any bytes, with no separator,
\* with a payload that is not hex, and with one that lacks the 0x prefix.
UnparsedKZGHints ==
    {HintL1KZGPointEvaluation, HintL1KZGPointEvaluation \o " 0xzz",
     HintL1KZGPointEvaluation \o " dead"}

\* The paths after /hint/ the clients send: the well-formed hints, a hint
\* of an unknown type, a type with no payload, a type with a payload that is
\* not hex, and a recognised type inside a longer word.
HintInputs ==
    {HeaderHint, TransactionsHint, ReceiptsHint, BlobHint, KZGHint,
     ValidKZGHint, "unknown 0xdead", HintL1Blob, HintL1BlockHeader \o " 0xzz",
     "x" \o HintL1Receipts \o " 0x00", ""}
    \cup WrongLengthHints \cup UnparsedKZGHints \cup {OtherIndexBlobHint}

\* The store of a data directory an earlier run has left the header in.
PrepopulatedKV == KVPut(EmptyKV, Keccak256Key(BlockHash1), HeaderRLP1)

\* The paths after /dehash/ the clients send: the key of the header, the
\* raw block hash, the local key of the L1 head, the empty key, keys of 2
\* and of 31 bytes, a key of 33 bytes, and strings that are not hex.
KeyInputs ==
    {HexEncode(Keccak256Key(BlockHash1)), HexEncode(BlockHash1),
     HexEncode(l1HeadKey), "", "02ab",
     SubSeq(HexEncode(Keccak256Key(BlockHash1)), 1, 62),
     HexEncode(Keccak256Key(BlockHash1)) \o "ff", "zz", "abc"}

\* What each client sends: c1 any of a range of paths, c2 (a second client
\* of the same server) well-formed hints and the key of the header.
ClientHints(c) ==
    IF c = "c1"
    THEN {HeaderHint, TransactionsHint, BlobHint, KZGHint,
          "unknown 0xdead", HintL1Blob, HintL1BlockHeader \o " 0xzz",
          "x" \o HintL1Receipts \o " 0x00"}
    ELSE {HeaderHint, KZGHint}

ClientKeys(c) ==
    IF c = "c1"
    THEN {HexEncode(Keccak256Key(BlockHash1)), HexEncode(l1HeadKey), "",
          SubSeq(HexEncode(Keccak256Key(BlockHash1)), 1, 62), "zz"}
    ELSE {HexEncode(Keccak256Key(BlockHash1))}

\* prefetchPlan for the hints the clients send, computed once.
PrefetchPlans ==
    [hint \in HintInputs |-> [up \in UpstreamModes |-> prefetchPlan(hint, up)]]

\* The result of prefetch from what it does before its Put calls (plan) and
\* what the Put calls did (w).
runPlan(kv, plan, w) ==
    IF plan.err # NoErr
    THEN [kv |-> kv, err |-> plan.err, calls |-> plan.calls]
    ELSE [kv |-> w.kv,
          err |-> IF w.err # NoErr THEN plan.wrap \o w.err ELSE NoErr,
          calls |-> plan.calls]

\* The Put calls of a plan run against the store.
applyPlan(kv, plan, failAt) == runPlan(kv, plan, PutAll(kv, plan.puts, failAt))

\* A prefetch that refuses to run when the store already holds one of the
\* keys it would write.
prefetchOnlyOnce(kv, hint, up, failAt) ==
    IF \E i \in 1..Len(PrefetchPlans[hint][up].puts) :
           PrefetchPlans[hint][up].puts[i].key \in DOMAIN kv
    THEN [kv |-> kv, err |-> "already stored", calls |-> 0]
    ELSE applyPlan(kv, PrefetchPlans[hint][up], failAt)

\* Prefetcher.prefetch(ctx, hint) on store kv with the upstream in mode up,
\* the failAt-th Put failing: the store afterwards, the error returned, and
\* the upstream calls made.
prefetch(kv, hint, up, failAt) == applyPlan(kv, PrefetchPlans[hint][up], failAt)

\* ------------------------------------------------------------------------
\* The /dehash/ handler's key
\* ------------------------------------------------------------------------

\* The ASCII code of a hex character.
Ascii(c) ==
    IF \E v \in 1..10 : HexDigits[v] = c THEN 48 + FromHexChar(c)
    ELSE IF \E v \in 11..16 : HexDigits[v] = c THEN 97 + FromHexChar(c) - 10
    ELSE 65 + FromHexChar(c) - 10

\* The size class the Go allocator rounds a byte slice of n bytes up to.
RoundUpSize(n) ==
    IF n <= 8 THEN 8 ELSE IF n <= 16 THEN 16 ELSE IF n <= 24 THEN 24
    ELSE IF n <= 32 THEN 32 ELSE IF n <= 48 THEN 48 ELSE IF n <= 64 THEN 64
    ELSE 16 * ((n + 15) \div 16)

\* The capacities the slice hex.DecodeString returns may have: the decoded
\* length (a fresh destination) or the size class of the source string's
\* bytes (decoding in place), by the version of encoding/hex.
SliceCaps(keyStr) == {Len(keyStr) \div 2, RoundUpSize(Len(keyStr))}

\* The backing array of the decoded key up to capacity cap: the decoded
\* bytes, then (decoding in place) the characters of keyStr not overwritten,
\* then zeros.
Backing(keyStr, cap) ==
    LET n == Len(keyStr) \div 2
    IN  [i \in 1..cap |->
            IF i <= n THEN HexPairs(keyStr)[i]
            ELSE IF cap > n /\ i <= Len(keyStr) THEN Ascii(CharAt(keyStr, i))
            ELSE 0]

\* Lines 104-113 of the /dehash/ handler: the key the lookup is done with,
\* or the status the handler ends with before any lookup.
DehashKey(keyStr, cap) ==
    LET dec == HexDecodeString(keyStr)
    IN  IF dec.err # NoErr THEN [status |-> StatusBadRequest, key |-> <<>>]
        ELSE IF Len(dec.bytes) = 0 THEN [status |-> NoResponse, key |-> <<>>]
        ELSE IF HashLength > cap THEN [status |-> NoResponse, key |-> <<>>]
        ELSE [status |-> StatusOK,
              key |-> WithTag(SubSeq(Backing(keyStr, cap), 1, HashLength),
                              Keccak256KeyType)]

\* Lines 129-133 of the /hint/ handler: the hint names a recognised type.
HintTypeRecognised(hint) ==
    \/ StringsContains(hint, HintL1BlockHeader)
    \/ StringsContains(hint, HintL1Transactions)
    \/ StringsContains(hint, HintL1Receipts)
    \/ StringsContains(hint, HintL1Blob)
    \/ StringsContains(hint, HintL1KZGPointEvaluation)

\* DehashKey and HintTypeRecognised for the paths the clients send, computed
\* once.
DehashKeys ==
    [keyStr \in KeyInputs |->
        [cap \in SliceCaps(keyStr) |-> DehashKey(keyStr, cap)]]

RecognisedHints == {hint \in HintInputs : HintTypeRecognised(hint)}

\* ------------------------------------------------------------------------
\* State
\* ------------------------------------------------------------------------

VARIABLES
    cfg,        \* the configuration the process was started with
    kv,         \* the key-value store, shared by all requests
    lastHint,   \* Prefetcher.lastHint
    pc,         \* per client: "idle", or "loop" inside GetPreimage
    cur,        \* per client: the GetPreimage call in progress
    resp,       \* the last response a handler wrote
    sent,       \* per client: the last hint it sent that was answered ok
    localRes,   \* the last result of LocalPreimageSource.Get
    nreq,       \* requests issued so far
    nfault,     \* I/O errors the disk store has raised so far
    run,        \* a prefetch run on its own: its inputs and what it did
    retry,      \* one call of a retrying upstream operation
    disk,       \* one put of the disk store and the gets running beside it
    main,       \* where Main is, the error it returned, the server it started
    mon,        \* the game monitor: its context, its done channel, its loops
    game,       \* a PermissionedDisputeGame: its roles, its state, the last call
    da          \* a DAClient, the storage service it talks to, the last call

\* The state of the server, and the state of the parts run on their own.
server == <<cfg, kv, lastHint, pc, cur, resp, sent, localRes, nreq, nfault>>

parts == <<run, retry, disk, main, mon, game, da>>

vars == <<server, parts>>

\* Prefetcher.Hint that records only the first hint it is given.
PrefetcherHintKeepsFirst(hint) == IF lastHint = "" THEN hint ELSE lastHint

\* Prefetcher.Hint(hint): the value of lastHint afterwards (it returns nil).
PrefetcherHint(hint) == hint

\* ------------------------------------------------------------------------
\* The server
\* ------------------------------------------------------------------------

\* No GetPreimage call in progress. A call records the path of its request,
\* its key, the result of its last kvStore.Get, and of the loop: the hint of
\* the last prefetch, the upstream's mode then, whether prefetch ran, made
\* an upstream call, how many times the store was read after a prefetch
\* (counted to 2), and the parity of the number of iterations of the loop.
NoCall ==
    [arg |-> "", key |-> <<>>, pre |-> <<>>, err |-> NoErr, hint |-> "",
     up |-> "", prefetched |-> FALSE, fetched |-> FALSE, rereads |-> 0,
     odd |-> FALSE]

NoResp ==
    [client |-> "", path |-> "none", arg |-> "", status |-> NoResponse,
     body |-> <<>>, err |-> NoErr, call |-> NoCall]

NoLocal == [key |-> <<>>, pre |-> <<>>, err |-> "none"]

\* No call of a retrying upstream operation: the operation, the context the
\* call was given, the outcomes of the attempts made so far, where the call
\* is ("call": about to attempt, "sleep": backing off, "done": returned),
\* the delay of the current sleep, the error returned, and where the call
\* was when the client gave up its request ("no": it has not).
NoRetry ==
    [op |-> "", ctx |-> "", calls |-> <<>>, phase |-> "done", delay |-> 0,
     err |-> NoErr, cancelledAt |-> "no"]

\* A file of the data directory that does not exist, and one holding data.
NoFile == [exists |-> FALSE, data |-> <<>>]

File(data) == [exists |-> TRUE, data |-> data]

\* No put of the disk store: the value put, the file of the key before the
\* put and now, the temporary sibling file, where the put is ("start",
\* "write", "done", or "interrupted"), and the results the gets of the key
\* have returned since the put started.
NoDisk ==
    [v |-> <<>>, before |-> NoFile, file |-> NoFile, tmp |-> NoFile,
     pc |-> "done", got |-> {}]

\* No prefetch run on its own: the hint, the upstream's answer, the store
\* before, the Puts made so far, the result of the last run (store, error,
\* upstream calls) and the number of runs.
NoRun ==
    [hint |-> "", up |-> "ok", before |-> EmptyKV, puts |-> <<>>,
     res |-> [kv |-> EmptyKV, err |-> NoErr, calls |-> 0], n |-> 0]

\* ------------------------------------------------------------------------
\* op-dispute-mon: gameMonitor
\* ------------------------------------------------------------------------

\* Instants and durations are counted in half seconds, so that a game window
\* can be a fraction of a second.
TicksPerSecond == 2

\* The width of the unsigned result of minGameTimestamp, scaled down.
UintBits == 16

Uint(x) == x % (2 ^ UintBits)

\* time.Time.Unix(): the whole seconds since the epoch, rounded down.
Unix(t) == t \div TicksPerSecond

\* int64(d.Seconds()): the conversion of the float truncates towards zero.
WholeSeconds(d) ==
    IF d >= 0 THEN d \div TicksPerSecond ELSE 0 - ((0 - d) \div TicksPerSecond)

\* minGameTimestamp that does not compare the clock with the window.
minGameTimestampNoCompare(now, gameWindow) ==
    IF gameWindow = 0 THEN 0 ELSE Uint(Unix(now - gameWindow))

\* gameMonitor.minGameTimestamp under a clock that reads now.
minGameTimestamp(now, gameWindow) ==
    IF gameWindow = 0 THEN 0
    ELSE IF Unix(now) > WholeSeconds(gameWindow)
    THEN Uint(Unix(now - gameWindow))
    ELSE 0

\* The calls of one round of monitorGames, in the order of the code.
MonitorSteps ==
    <<"fetchBlockNumber", "fetchBlockHash", "extract",
      "delays", "detect", "forecast">>

\* The calls that return an error.
FallibleSteps == {"fetchBlockNumber", "fetchBlockHash", "extract"}

StepError(step) ==
    CASE step = "fetchBlockNumber" -> "Failed to fetch block number"
      [] step = "fetchBlockHash" -> "Failed to fetch block hash"
      [] step = "extract" -> "failed to load games"

StepIndex(step) == CHOOSE i \in DOMAIN MonitorSteps : MonitorSteps[i] = step

\* monitorGames that goes on to the next call after a failed one.
AfterStepIgnoringError(step, failed) ==
    IF step = "forecast" THEN "select" ELSE MonitorSteps[StepIndex(step) + 1]

\* Where a loop is after a call of monitorGames: back at its select after a
\* failed call or after the last one, at the next call otherwise.
AfterStep(step, failed) ==
    IF failed \/ step = "forecast" THEN "select"
    ELSE MonitorSteps[StepIndex(step) + 1]

\* The goroutines StartMonitoring can have started.
Loops == 1..MaxStarts

\* A loop not started yet: where it is, the calls of its current round (of its
\* last round when it is at its select), the error of its last failed round.
NoLoop == [pc |-> "none", ran |-> <<>>, err |-> NoErr]

\* newGameMonitor: the context it was given (depth 0, not cancelled), no
\* cancel function, an open done channel. ctx counts the WithCancel contexts
\* wrapped around the given one, cancel is the depth of the context the cancel
\* function cancels (0: nil).
NoMon ==
    [ctx |-> 0, ctxDone |-> FALSE, cancel |-> 0, first |-> 0,
     done |-> "open", panicked |-> FALSE,
     loops |-> [l \in Loops |-> NoLoop],
     now |-> 6, gameWindow |-> 4,
     extracted |-> FALSE, minTimestamp |-> 0]

\* ------------------------------------------------------------------------
\* contracts-bedrock: PermissionedDisputeGame
\* ------------------------------------------------------------------------

\* The accounts of the model: three externally owned ones and a contract (the
\* factory that creates and initializes games).
Accounts == {"proposer", "challenger", "other"}

Contracts == {"factory"}

Addresses == Accounts \cup Contracts

BadAuth == "BadAuth"

\* onlyAuthorized that lets every caller through.
onlyAuthorizedAnyone(sender, proposer, challenger) == TRUE

\* modifier onlyAuthorized: whether the body runs.
onlyAuthorized(sender, proposer, challenger) ==
    sender = proposer \/ sender = challenger

\* The game after its constructor: the two roles, not initialized, no claim,
\* no step made, no call made.
NoGame ==
    [PROPOSER |-> "proposer", CHALLENGER |-> "challenger",
     initialized |-> FALSE, claims |-> 0, steps |-> 0,
     last |-> [fn |-> "", sender |-> "", origin |-> "", revert |-> NoErr]]

\* ------------------------------------------------------------------------
\* op-plasma: DAClient
\* ------------------------------------------------------------------------

PlasmaErrNotFound == "not found"

ErrCommitmentMismatch == "commitment mismatch"

ErrInvalidInput == "invalid input"

StatusInternalServerError == 500

\* crypto.Keccak256
Keccak256(b) == Keccak256Hash(b)

\* fmt.Sprintf("%s/get/0x%x", c.url, key): the path after the verb.
KeyPath(key) == "0x" \o HexEncode(key)

\* The commitment check of GetInput that accepts every input.
CommitmentMatchesAny(input, key) == TRUE

\* bytes.Equal(crypto.Keccak256(input), key)
CommitmentMatches(input, key) == Keccak256(input) = key

\* No answer of the server (the request failed, or none was made).
NoAnswer == [status |-> NoResponse, body |-> <<>>]

\* NewDAClient and a storage service holding nothing: the client's verify
\* flag, the inputs the service holds by path, the inputs SetInput returned a
\* commitment for, whether the service stored every input it answered 200 to,
\* and the last call.
NoDA ==
    [verify |-> TRUE, store |-> <<>>, committed |-> {}, faithful |-> TRUE,
     last |-> [op |-> "", arg |-> <<>>, mode |-> "", contacted |-> FALSE,
               answer |-> NoAnswer, out |-> <<>>, err |-> NoErr]]

\* The store of the process: in memory (nothing fails) or on disk (a Get or a
\* Put may fail with an I/O error).
DiskStore == cfg.DataDir # ""

MayFault == DiskStore /\ nfault < MaxFaults

\* Whether a kvStore.Get fails with an I/O error.
GetFaults == IF MayFault THEN {FALSE, TRUE} ELSE {FALSE}

\* Which of the Put calls of a prefetch under hint fails with an I/O error
\* (0: none).
PutFaults(hint, up) ==
    IF MayFault THEN 0..Len(PrefetchPlans[hint][up].puts) ELSE {0}

\* The answers of the upstream node a prefetch under hint calls.
UpstreamAnswers(hint) ==
    IF PrefetchPlans[hint]["ok"].calls = 0 THEN {"ok"}
    ELSE IF PrefetchPlans[hint]["ok"] = PrefetchPlans[hint]["nosidecar"]
    THEN L1Modes \cup {up \in TrustedModes :
                          PrefetchPlans[hint][up] # PrefetchPlans[hint]["ok"]}
    ELSE BeaconModes

\* Main: the server starts only with a configuration that passes Check. The
\* data directory of an offline server may hold the preimages of an earlier
\* run.
ServerInit ==
    /\ cfg \in {c \in Configs : ConfigCheck(c) = NoErr}
    /\ kv \in IF FetchingEnabled(cfg) THEN {EmptyKV}
               ELSE {EmptyKV, PrepopulatedKV}
    /\ lastHint = ""
    /\ pc = [c \in Clients |-> "idle"]
    /\ cur = [c \in Clients |-> NoCall]
    /\ resp = NoResp
    /\ sent = [c \in Clients |-> ""]
    /\ localRes = NoLocal
    /\ nreq = 0
    /\ nfault = 0

\* Main has checked the configuration and started the server.
Serving(config) ==
    [pc |-> "serving", err |-> NoErr,
     store |-> IF config.DataDir = "" THEN "memory" ELSE "disk",
     source |-> IF FetchingEnabled(config) THEN "prefetcher" ELSE "store"]

Init ==
    /\ ServerInit
    /\ run = NoRun
    /\ retry = NoRetry
    /\ disk = NoDisk
    /\ main = Serving(cfg)
    /\ mon = NoMon
    /\ game = NoGame
    /\ da = NoDA

\* The response of the /dehash/ handler to the result (pre, err) of
\* preimageSource (lines 113-123).
DehashResponse(c, call) ==
    [client |-> c, path |-> "dehash", arg |-> call.arg,
     status |-> IF call.err # NoErr THEN StatusNotFound ELSE StatusOK,
     body |-> IF call.err # NoErr THEN <<>> ELSE call.pre,
     err |-> call.err, call |-> [call EXCEPT !.odd = FALSE]]

\* GET /dehash/<keyStr> from client c: the handler up to the first
\* kvStore.Get of GetPreimage (line 69 of the prefetcher), or to its end
\* when the key is refused, the handler panics, or the server is offline
\* (preimageSource is kv.Get).
Dehash(c, keyStr) ==
    /\ pc[c] = "idle"
    /\ nreq < MaxRequests
    /\ nreq' = nreq + 1
    /\ \E cap \in SliceCaps(keyStr), ioerr \in GetFaults :
        LET d == DehashKeys[keyStr][cap]
            g == KVGet(kv, d.key, ioerr)
            call == [NoCall EXCEPT !.arg = keyStr, !.key = d.key,
                                   !.pre = g.pre, !.err = g.err]
        IN  IF d.status # StatusOK
            THEN /\ ~ioerr
                 /\ resp' = [NoResp EXCEPT !.client = c, !.path = "dehash",
                                           !.arg = keyStr, !.status = d.status]
                 /\ UNCHANGED <<pc, cur, nfault>>
            ELSE /\ nfault' = IF ioerr THEN nfault + 1 ELSE nfault
                 /\ IF FetchingEnabled(cfg)
                    THEN /\ pc' = [pc EXCEPT ![c] = "loop"]
                         /\ cur' = [cur EXCEPT ![c] = call]
                         /\ UNCHANGED resp
                    ELSE /\ resp' = DehashResponse(c, call)
                         /\ UNCHANGED <<pc, cur>>
    /\ UNCHANGED <<cfg, kv, lastHint, sent, localRes, parts>>

\* One evaluation of the loop condition of GetPreimage (line 73) by the
\* call of client c, with the loop body when it holds: prefetch under the
\* last hint (the upstream answering in some mode), then kvStore.Get again;
\* and the return when it does not.
GetPreimageLoop(c) ==
    /\ pc[c] = "loop"
    /\ IF LoopCondition(cur[c].err, lastHint)
       THEN \E up \in UpstreamAnswers(lastHint) :
            \E failAt \in PutFaults(lastHint, up), ioerr \in GetFaults :
            \E hint \in {lastHint} :
            \E r \in {prefetch(kv, hint, up, failAt)} :
            \E g \in {KVGet(r.kv, cur[c].key, ioerr)} :
            LET after == [cur[c] EXCEPT !.hint = hint,
                                        !.up = IF r.calls > 0 THEN up ELSE "",
                                        !.prefetched = TRUE,
                                        !.fetched = @ \/ r.calls > 0]
            IN  /\ failAt > 0 => ~ioerr
                /\ r.err # NoErr => ~ioerr
                /\ nfault' = IF failAt > 0 \/ ioerr THEN nfault + 1 ELSE nfault
                /\ kv' = r.kv
                /\ IF r.err # NoErr
                   THEN /\ resp' = DehashResponse(c,
                                      [after EXCEPT !.pre = <<>>,
                                          !.err = PrefetchFailed(r.err)])
                        /\ pc' = [pc EXCEPT ![c] = "idle"]
                        /\ cur' = [cur EXCEPT ![c] = NoCall]
                   ELSE /\ cur' = [cur EXCEPT ![c] =
                                     [after EXCEPT !.pre = g.pre, !.err = g.err,
                                                   !.rereads = Min(@ + 1, 2),
                                                   !.odd = ~@]]
                        /\ UNCHANGED <<pc, resp>>
       ELSE /\ resp' = DehashResponse(c, cur[c])
            /\ pc' = [pc EXCEPT ![c] = "idle"]
            /\ cur' = [cur EXCEPT ![c] = NoCall]
            /\ UNCHANGED <<kv, nfault>>
    /\ UNCHANGED <<cfg, lastHint, sent, localRes, nreq, parts>>

\* GET /hint/<hint> from client c (lines 126-147): refused unless it names a
\* recognised type, else handed to the hint handler (Prefetcher.Hint when
\* fetching, a no-op offline), which never fails.
Hint(c, hint) ==
    /\ pc[c] = "idle"
    /\ nreq < MaxRequests
    /\ nreq' = nreq + 1
    /\ IF hint \notin RecognisedHints
       THEN /\ resp' = [NoResp EXCEPT !.client = c, !.path = "hint",
                                      !.arg = hint, !.status = StatusBadRequest]
            /\ UNCHANGED <<lastHint, sent>>
       ELSE /\ lastHint' = IF FetchingEnabled(cfg) THEN PrefetcherHint(hint)
                           ELSE lastHint
            /\ resp' = [NoResp EXCEPT !.client = c, !.path = "hint",
                                      !.arg = hint, !.status = StatusOK,
                                      !.body = <<111, 107>>]
            /\ sent' = [sent EXCEPT ![c] = hint]
    /\ UNCHANGED <<cfg, kv, pc, cur, localRes, nfault, parts>>

\* A caller of the local preimage source asks it for key.
LocalGet(key) ==
    /\ nreq < MaxRequests
    /\ nreq' = nreq + 1
    /\ LET g == LocalPreimageSourceGet(cfg, key)
       IN  localRes' = [key |-> key, pre |-> g.pre, err |-> g.err]
    /\ UNCHANGED <<cfg, kv, lastHint, pc, cur, resp, sent, nfault, parts>>

\* The keys the local source is asked for.
LocalKeyInputs == {l1HeadKey, LocalIndexKey(2)}

Next ==
    \/ \E c \in Clients : \E keyStr \in ClientKeys(c) : Dehash(c, keyStr)
    \/ \E c \in Clients : GetPreimageLoop(c)
    \/ \E c \in Clients : \E hint \in ClientHints(c) : Hint(c, hint)
    \/ \E key \in LocalKeyInputs : LocalGet(key)

Spec == Init /\ [][Next]_vars

\* The Go scheduler runs every handler goroutine: a GetPreimage call in
\* progress keeps taking steps.
FairSpec == Spec /\ \A c \in Clients : WF_vars(GetPreimageLoop(c))

\* ------------------------------------------------------------------------
\* Prefetcher.prefetch run on its own
\* ------------------------------------------------------------------------

\* The stores a run starts on: empty, or holding the header already.
RunStores == {EmptyKV, PrepopulatedKV}

\* The Put calls made when the failAt-th fails (0: none fails).
PutsDone(puts, failAt) ==
    SubSeq(puts, 1, IF failAt = 0 THEN Len(puts) ELSE failAt - 1)

\* Which Put call of a run fails (0: none).
RunFaults ==
    UNION {0..Len(PrefetchPlans[h][up].puts) :
               h \in HintInputs, up \in UpstreamModes}

RunInit ==
    /\ ServerInit
    /\ \E h \in HintInputs, up \in UpstreamModes, store \in RunStores :
          run = [NoRun EXCEPT !.hint = h, !.up = up, !.before = store,
                              !.res.kv = store]
    /\ retry = NoRetry
    /\ disk = NoDisk
    /\ main = Serving(cfg)
    /\ mon = NoMon
    /\ game = NoGame
    /\ da = NoDA

\* One call of prefetch(ctx, hint) on the store the last run left, the
\* upstream answering as before and the failAt-th Put failing.
RunPrefetch(failAt) ==
    /\ run.n < MaxRuns
    /\ \E plan \in {PrefetchPlans[run.hint][run.up]} :
          /\ failAt <= Len(plan.puts)
          /\ \E r \in {prefetch(run.res.kv, run.hint, run.up, failAt)} :
                run' = [run EXCEPT
                          !.puts = @ \o (IF plan.err # NoErr THEN <<>>
                                         ELSE PutsDone(plan.puts, failAt)),
                          !.res = r,
                          !.n = @ + 1]
    /\ UNCHANGED <<server, retry, disk, main, mon, game, da>>

PrefetchNext == \E failAt \in RunFaults : RunPrefetch(failAt)

PrefetchSpec == RunInit /\ [][PrefetchNext]_vars

\* ------------------------------------------------------------------------
\* The retrying upstream (NewRetryingL1Source, NewRetryingL1BlobSource)
\* ------------------------------------------------------------------------

\* The four operations NewPrefetcher wraps.
RetryingOps ==
    {"InfoByHash", "InfoAndTxsByHash", "FetchReceipts", "GetBlobSidecars"}

\* The outcome of one attempt: success, a transient error (network, 5xx,
\* timeout) or a deterministic one (invalid input, 4xx).
AttemptOutcomes == {"ok", "transient", "deterministic"}

\* The context Main hands to PreimageServer, and PreimageServer to every
\* GetPreimage: context.Background(), which is never done.
MainContext == "background"

ContextDone(ctx, cancelledAt) == ctx # "background" /\ cancelledAt # "no"

\* The delay before attempt n + 1: exponential in n, capped.
MaxDelay == 4

BackoffDelay(n) == Min(MaxDelay, 2 ^ (n - 1))

\* A wrapper that goes on after a deterministic error as after a transient
\* one.
ShouldRetryAnyError(outcome, attempts) ==
    outcome # "ok" /\ attempts < MaxAttempts

\* Whether the wrapper goes on to another attempt after the attempts-th
\* ended in outcome.
ShouldRetry(outcome, attempts) ==
    outcome = "transient" /\ attempts < MaxAttempts

RetryInit ==
    /\ ServerInit
    /\ run = NoRun
    /\ disk = NoDisk
    /\ main = Serving(cfg)
    /\ mon = NoMon
    /\ game = NoGame
    /\ da = NoDA
    /\ \E op \in RetryingOps :
          retry = [NoRetry EXCEPT !.op = op, !.ctx = MainContext,
                                  !.phase = "call"]

\* One attempt of the wrapped operation, ending in outcome.
Attempt(outcome) ==
    /\ retry.phase = "call"
    /\ ~ContextDone(retry.ctx, retry.cancelledAt)
    /\ \E calls \in {Append(retry.calls, outcome)} :
          retry' = IF ShouldRetry(outcome, Len(calls))
                   THEN [retry EXCEPT !.calls = calls, !.phase = "sleep",
                                      !.delay = BackoffDelay(Len(calls))]
                   ELSE [retry EXCEPT !.calls = calls, !.phase = "done",
                                      !.delay = 0,
                                      !.err = IF outcome = "ok" THEN NoErr
                                              ELSE outcome]
    /\ UNCHANGED <<server, run, disk, main, mon, game, da>>

\* The backoff sleep ends.
Wake ==
    /\ retry.phase = "sleep"
    /\ ~ContextDone(retry.ctx, retry.cancelledAt)
    /\ retry' = [retry EXCEPT !.phase = "call", !.delay = 0]
    /\ UNCHANGED <<server, run, disk, main, mon, game, da>>

\* The client gives up its request (closes the connection) while the call
\* is pending.
ClientCancels ==
    /\ retry.phase # "done"
    /\ retry.cancelledAt = "no"
    /\ retry' = [retry EXCEPT !.cancelledAt = retry.phase]
    /\ UNCHANGED <<server, run, disk, main, mon, game, da>>

RetryNext ==
    \/ \E outcome \in AttemptOutcomes : Attempt(outcome)
    \/ Wake
    \/ ClientCancels

RetrySpec == RetryInit /\ [][RetryNext]_vars

\* ------------------------------------------------------------------------
\* The disk store (kvstore.NewDiskKV): one put and concurrent gets of a key
\* ------------------------------------------------------------------------

\* The values put, and the files the key may have before the put: none, the
\* value of an earlier put, or the same value.
DiskValues == {<<10, 20, 30>>, <<40>>}

DiskBefore(v) == {NoFile, File(<<10, 20>>), File(v)}

DiskInit ==
    /\ ServerInit
    /\ DiskStore
    /\ run = NoRun
    /\ retry = NoRetry
    /\ main = Serving(cfg)
    /\ mon = NoMon
    /\ game = NoGame
    /\ da = NoDA
    /\ \E v \in DiskValues : \E f \in DiskBefore(v) :
          disk = [NoDisk EXCEPT !.v = v, !.before = f, !.file = f,
                                !.pc = "start"]

\* A put that writes into the file of the key itself.
DiskWriteInPlace(d) ==
    [d EXCEPT !.file = File(SubSeq(d.v, 1,
                                   IF d.tmp.exists THEN Len(d.tmp.data) + 1
                                   ELSE 0)),
              !.tmp = File(SubSeq(d.v, 1,
                                  IF d.tmp.exists THEN Len(d.tmp.data) + 1
                                  ELSE 0))]

\* A write of put: the temporary sibling file is created, or the next byte
\* of the value is written to it.
DiskWrite(d) ==
    [d EXCEPT !.tmp = File(SubSeq(d.v, 1,
                                  IF d.tmp.exists THEN Len(d.tmp.data) + 1
                                  ELSE 0))]

\* put creates the temporary file.
PutCreateTemp ==
    /\ disk.pc = "start"
    /\ disk' = [DiskWrite(disk) EXCEPT !.pc = "write"]
    /\ UNCHANGED <<server, run, retry, main, mon, game, da>>

\* put writes the next byte of the value.
PutWrite ==
    /\ disk.pc = "write"
    /\ Len(disk.tmp.data) < Len(disk.v)
    /\ disk' = DiskWrite(disk)
    /\ UNCHANGED <<server, run, retry, main, mon, game, da>>

\* put renames the temporary file to the file of the key and returns.
PutRename ==
    /\ disk.pc = "write"
    /\ disk.tmp.data = disk.v
    /\ disk' = [disk EXCEPT !.file = disk.tmp, !.tmp = NoFile, !.pc = "done"]
    /\ UNCHANGED <<server, run, retry, main, mon, game, da>>

\* put is interrupted (the process is stopped, or a write fails) before its
\* rename.
PutInterrupted ==
    /\ disk.pc \in {"start", "write"}
    /\ disk' = [disk EXCEPT !.pc = "interrupted"]
    /\ UNCHANGED <<server, run, retry, main, mon, game, da>>

\* A get of the key from another request: the contents of the file of the
\* key, or ErrNotFound when opening it fails with "does not exist".
DiskGet ==
    /\ disk.v # <<>>
    /\ disk' = [disk EXCEPT !.got = @ \cup
                    {IF disk.file.exists
                     THEN [pre |-> disk.file.data, err |-> NoErr]
                     ELSE [pre |-> <<>>, err |-> ErrNotFound]}]
    /\ UNCHANGED <<server, run, retry, main, mon, game, da>>

DiskNext ==
    \/ PutCreateTemp
    \/ PutWrite
    \/ PutRename
    \/ PutInterrupted
    \/ DiskGet

DiskSpec == DiskInit /\ [][DiskNext]_vars

\* ------------------------------------------------------------------------
\* Main
\* ------------------------------------------------------------------------

\* The configurations Main may be called with.
MainConfigs ==
    [L1Head : {BlockHash1, ZeroHash}, L1URL : {"", "http://l1"},
     L1BeaconURL : {"", "http://beacon"}, L1TrustRPC : BOOLEAN,
     DataDir : {"", "/data"}, ServerMode : BOOLEAN, ExecCmd : {"", "client"}]

MainInit ==
    /\ cfg \in MainConfigs
    /\ kv = EmptyKV
    /\ lastHint = ""
    /\ pc = [c \in Clients |-> "idle"]
    /\ cur = [c \in Clients |-> NoCall]
    /\ resp = NoResp
    /\ sent = [c \in Clients |-> ""]
    /\ localRes = NoLocal
    /\ nreq = 0
    /\ nfault = 0
    /\ run = NoRun
    /\ retry = NoRetry
    /\ disk = NoDisk
    /\ main = [pc |-> "start", err |-> NoErr, store |-> "", source |-> ""]
    /\ mon = NoMon
    /\ game = NoGame
    /\ da = NoDA

\* Main(logger, cfg): returns the error of cfg.Check(), or goes on to
\* PreimageServer, which builds the store and the preimage source and
\* serves.
Main ==
    /\ main.pc = "start"
    /\ main' = IF ConfigCheck(cfg) # NoErr
               THEN [main EXCEPT !.pc = "exited", !.err = ConfigCheck(cfg)]
               ELSE Serving(cfg)
    /\ UNCHANGED <<server, run, retry, disk, mon, game, da>>

MainNext == Main

MainSpec == MainInit /\ [][MainNext]_vars

\* The game monitor on its own: StartMonitoring and StopMonitoring called in
\* any order, the loops they start, the rounds of monitorGames.
MonitorInit ==
    /\ ServerInit
    /\ run = NoRun
    /\ retry = NoRetry
    /\ disk = NoDisk
    /\ main = Serving(cfg)
    /\ mon = NoMon
    /\ game = NoGame
    /\ da = NoDA

\* StartMonitoring(): wraps the context when there is no cancel function,
\* then starts a loop.
StartMonitoring ==
    /\ ~mon.panicked
    /\ \E l \in Loops :
          /\ mon.loops[l].pc = "none"
          /\ \A k \in Loops : k < l => mon.loops[k].pc # "none"
          /\ mon' = [mon EXCEPT
                !.ctx = IF mon.cancel = 0 THEN @ + 1 ELSE @,
                !.cancel = IF mon.cancel = 0 THEN mon.ctx + 1 ELSE @,
                !.first = IF @ = 0 THEN mon.ctx + 1 ELSE @,
                !.loops[l].pc = "select"]
    /\ UNCHANGED <<server, run, retry, disk, main, game, da>>

\* StopMonitoring(): cancels the context when there is a cancel function, then
\* closes the done channel. Closing a closed channel panics.
StopMonitoring ==
    /\ ~mon.panicked
    /\ mon' = [mon EXCEPT
          !.ctxDone = IF mon.cancel # 0 THEN TRUE ELSE @,
          !.cancel = 0,
          !.done = "closed",
          !.panicked = (mon.done = "closed")]
    /\ UNCHANGED <<server, run, retry, disk, main, game, da>>

\* loop(), case <-ticker.Ch(): a round of monitorGames begins.
Tick(l) ==
    /\ ~mon.panicked
    /\ mon.loops[l].pc = "select"
    /\ mon' = [mon EXCEPT !.loops[l].pc = MonitorSteps[1],
                          !.loops[l].ran = <<>>]
    /\ UNCHANGED <<server, run, retry, disk, main, game, da>>

\* One call of monitorGames; extract is given minGameTimestamp(). A failed
\* round is logged by the loop, which goes back to its select.
MonitorStep(l, ok) ==
    /\ ~mon.panicked
    /\ mon.loops[l].pc \in FallibleSteps \cup {"delays", "detect", "forecast"}
    /\ \E step \in {mon.loops[l].pc} :
       \E failed \in {(step \in FallibleSteps) /\ ~ok} :
          mon' = [mon EXCEPT
                !.loops[l].pc = AfterStep(step, failed),
                !.loops[l].ran = Append(@, step),
                !.loops[l].err =
                    IF failed THEN StepError(step)
                    ELSE IF step = MonitorSteps[1] THEN NoErr ELSE @,
                !.extracted = IF step = "extract" THEN TRUE ELSE @,
                !.minTimestamp =
                    IF step = "extract"
                    THEN minGameTimestamp(mon.now, mon.gameWindow) ELSE @]
    /\ UNCHANGED <<server, run, retry, disk, main, game, da>>

\* loop(), case <-m.done: the loop returns.
LoopDone(l) ==
    /\ ~mon.panicked
    /\ mon.loops[l].pc = "select"
    /\ mon.done = "closed"
    /\ mon' = [mon EXCEPT !.loops[l].pc = "exited"]
    /\ UNCHANGED <<server, run, retry, disk, main, game, da>>

MonitorNext ==
    \/ StartMonitoring
    \/ StopMonitoring
    \/ \E l \in Loops : Tick(l)
    \/ \E l \in Loops, ok \in BOOLEAN : MonitorStep(l, ok)
    \/ \E l \in Loops : LoopDone(l)

MonitorSpec == MonitorInit /\ [][MonitorNext]_vars

\* minGameTimestamp on its own, under every clock reading and game window.
Instants == 0..MaxNow

Windows == (0 - MaxWindow)..MaxWindow

TimestampInit ==
    /\ ServerInit
    /\ run = NoRun
    /\ retry = NoRetry
    /\ disk = NoDisk
    /\ main = Serving(cfg)
    /\ \E now \in Instants, gameWindow \in Windows :
          mon = [NoMon EXCEPT !.now = now, !.gameWindow = gameWindow]
    /\ game = NoGame
    /\ da = NoDA

MinGameTimestampCall ==
    /\ ~mon.extracted
    /\ mon' = [mon EXCEPT
          !.extracted = TRUE,
          !.minTimestamp = minGameTimestamp(mon.now, mon.gameWindow)]
    /\ UNCHANGED <<server, run, retry, disk, main, game, da>>

TimestampNext == MinGameTimestampCall

TimestampSpec == TimestampInit /\ [][TimestampNext]_vars

\* A PermissionedDisputeGame on its own, called by any account or contract.
\* A transaction starts at an externally owned account: a call from one has
\* it as its origin, a call from a contract has any of them.
Origins(sender) == IF sender \in Accounts THEN {sender} ELSE Accounts

PermissionedInit ==
    /\ ServerInit
    /\ run = NoRun
    /\ retry = NoRetry
    /\ disk = NoDisk
    /\ main = Serving(cfg)
    /\ mon = NoMon
    /\ \E proposer \in Addresses, challenger \in Addresses :
          game = [NoGame EXCEPT !.PROPOSER = proposer,
                                !.CHALLENGER = challenger]
    /\ da = NoDA

\* step(_claimIndex, _isAttack, _stateData, _proof): reverts with BadAuth
\* under onlyAuthorized, and calls super.step otherwise, which reverts for a
\* reason of its own (superReverts) or counters a claim.
PermissionedStep(sender, origin, superReverts) ==
    /\ \E authorized \in {onlyAuthorized(sender, game.PROPOSER, game.CHALLENGER)} :
       \E done \in {authorized /\ ~superReverts /\ game.steps < game.claims} :
          game' = [game EXCEPT
                !.steps = IF done THEN @ + 1 ELSE @,
                !.last = [fn |-> "step", sender |-> sender, origin |-> origin,
                          revert |-> IF ~authorized THEN BadAuth
                                     ELSE IF done THEN NoErr
                                     ELSE "FaultDisputeGame"]]
    /\ UNCHANGED <<server, run, retry, disk, main, mon, da>>

\* move(_challengeIndex, _claim, _isAttack): reverts with BadAuth under
\* onlyAuthorized, and calls super.move otherwise, which reverts for a reason
\* of its own or adds a claim.
PermissionedMove(sender, origin, superReverts) ==
    /\ \E authorized \in {onlyAuthorized(sender, game.PROPOSER, game.CHALLENGER)} :
       \E done \in {authorized /\ ~superReverts /\ game.initialized
                    /\ game.claims < MaxClaims} :
          game' = [game EXCEPT
                !.claims = IF done THEN @ + 1 ELSE @,
                !.last = [fn |-> "move", sender |-> sender, origin |-> origin,
                          revert |-> IF ~authorized THEN BadAuth
                                     ELSE IF done THEN NoErr
                                     ELSE "FaultDisputeGame"]]
    /\ UNCHANGED <<server, run, retry, disk, main, mon, da>>

\* initialize(): reverts with BadAuth unless tx.origin is PROPOSER, and calls
\* super.initialize otherwise, which reverts for a reason of its own or sets
\* the game up.
PermissionedInitialize(sender, origin, superReverts) ==
    /\ \E authorized \in {origin = game.PROPOSER} :
       \E done \in {authorized /\ ~superReverts /\ ~game.initialized} :
          game' = [game EXCEPT
                !.initialized = IF done THEN TRUE ELSE @,
                !.last = [fn |-> "initialize", sender |-> sender,
                          origin |-> origin,
                          revert |-> IF ~authorized THEN BadAuth
                                     ELSE IF done THEN NoErr
                                     ELSE "FaultDisputeGame"]]
    /\ UNCHANGED <<server, run, retry, disk, main, mon, da>>

PermissionedNext ==
    \E sender \in Addresses, superReverts \in BOOLEAN :
    \E origin \in Origins(sender) :
        \/ PermissionedStep(sender, origin, superReverts)
        \/ PermissionedMove(sender, origin, superReverts)
        \/ PermissionedInitialize(sender, origin, superReverts)

PermissionedSpec == PermissionedInit /\ [][PermissionedNext]_vars

\* A DAClient on its own, against a storage service that may be down, refuse
\* a request, or answer with what it does not hold.
DAInputs == {<<>>, <<1>>, <<2, 3>>}

DAKeys == {Keccak256(img) : img \in DAInputs \ {<<>>}} \cup {UnknownHash}

\* What a service that does not serve the stored input answers with.
OtherBody == <<9>>

\* How the service treats a put: it stores the body and answers 200, answers
\* 200 and stores nothing, answers 500, or cannot be reached.
PutModes == {"store", "drop", "refuse", "down"}

\* How the service treats a get: it serves what it holds at the path (404
\* when nothing), answers 200 or 500 with another body, answers 404 whatever
\* it holds, or cannot be reached.
GetModes == {"serve", "wrong", "error", "missing", "down"}

PutAnswer(mode) ==
    CASE mode \in {"store", "drop"} -> [status |-> StatusOK, body |-> <<>>]
      [] mode = "refuse" -> [status |-> StatusInternalServerError, body |-> <<>>]
      [] mode = "down" -> NoAnswer

GetAnswer(store, path, mode) ==
    CASE mode = "serve" ->
            IF path \in DOMAIN store
            THEN [status |-> StatusOK, body |-> store[path]]
            ELSE [status |-> StatusNotFound, body |-> <<>>]
      [] mode = "wrong" -> [status |-> StatusOK, body |-> OtherBody]
      [] mode = "error" ->
            [status |-> StatusInternalServerError, body |-> OtherBody]
      [] mode = "missing" -> [status |-> StatusNotFound, body |-> <<>>]
      [] mode = "down" -> NoAnswer

DAInit ==
    /\ ServerInit
    /\ run = NoRun
    /\ retry = NoRetry
    /\ disk = NoDisk
    /\ main = Serving(cfg)
    /\ mon = NoMon
    /\ game = NoGame
    /\ \E verify \in BOOLEAN : da = [NoDA EXCEPT !.verify = verify]

\* DAClient.SetInput(ctx, img)
SetInput(img, mode) ==
    /\ IF Len(img) = 0
       THEN da' = [da EXCEPT
                !.last = [op |-> "set", arg |-> img, mode |-> "",
                          contacted |-> FALSE, answer |-> NoAnswer,
                          out |-> <<>>, err |-> ErrInvalidInput]]
       ELSE \E key \in {Keccak256(img)} :
            \E answer \in {PutAnswer(mode)} :
               da' = [da EXCEPT
                     !.store = IF mode = "store"
                               THEN KVPut(@, KeyPath(key), img) ELSE @,
                     !.faithful = IF mode = "drop" THEN FALSE ELSE @,
                     !.committed = IF answer.status = StatusOK
                                   THEN @ \cup {img} ELSE @,
                     !.last = [op |-> "set", arg |-> img, mode |-> mode,
                               contacted |-> TRUE, answer |-> answer,
                               out |-> IF answer.status = StatusOK
                                       THEN key ELSE <<>>,
                               err |-> IF answer = NoAnswer THEN "http"
                                       ELSE IF answer.status # StatusOK
                                       THEN "failed to store preimage"
                                       ELSE NoErr]]
    /\ UNCHANGED <<server, run, retry, disk, main, mon, game>>

\* DAClient.GetInput(ctx, key)
GetInput(key, mode) ==
    /\ \E answer \in {GetAnswer(da.store, KeyPath(key), mode)} :
       \E err \in {IF answer = NoAnswer THEN "http"
                   ELSE IF answer.status = StatusNotFound
                   THEN PlasmaErrNotFound
                   ELSE IF da.verify /\ ~CommitmentMatches(answer.body, key)
                   THEN ErrCommitmentMismatch
                   ELSE NoErr} :
          da' = [da EXCEPT
                !.last = [op |-> "get", arg |-> key, mode |-> mode,
                          contacted |-> TRUE, answer |-> answer,
                          out |-> IF err = NoErr THEN answer.body ELSE <<>>,
                          err |-> err]]
    /\ UNCHANGED <<server, run, retry, disk, main, mon, game>>

DANext ==
    \/ \E img \in DAInputs, mode \in PutModes : SetInput(img, mode)
    \/ \E key \in DAKeys, mode \in GetModes : GetInput(key, mode)

DASpec == DAInit /\ [][DANext]_vars

\* ------------------------------------------------------------------------
\* Properties
\* ------------------------------------------------------------------------

HeaderKey == Keccak256Key(BlockHash1)

HintTypes ==
    {HintL1BlockHeader, HintL1Transactions, HintL1Receipts, HintL1Blob,
     HintL1KZGPointEvaluation}

\* A hint of the form "<type> 0x<hex>" with one of the five types.
WellFormedHint(hint) ==
    LET p == parseHint(hint) IN p.err = NoErr /\ p.hintType \in HintTypes

\* What a step of client c's GetPreimage call leaves: the call as it goes
\* on, or as the response reports it.
Outcome(c) == IF pc'[c] = "loop" THEN cur'[c] ELSE resp'.call

\* The answer of the upstream that step met ("ok" when it made no call).
UpstreamMet(c) == IF Outcome(c).up = "" THEN "ok" ELSE Outcome(c).up

\* C1: in GetPreimage, whenever the last kvStore.Get returned ErrNotFound
\* and the recorded last hint is not empty, prefetch runs under that hint;
\* when it succeeds the store is read again for the same key, when it fails
\* the call returns "prefetch failed" wrapping the failure without another
\* read; and a Get result that is not such a miss is what the call returns,
\* with no prefetch after it.
C1_LoopContract ==
    [][\A c \in Clients :
        (pc[c] = "loop" /\ cur'[c] # cur[c]) =>
            IF cur[c].err = ErrNotFound /\ lastHint # ""
            THEN \E up \in {UpstreamMet(c)} :
                 \E failAt \in 0..Len(PrefetchPlans[lastHint][up].puts) :
                 \E r \in {prefetch(kv, lastHint, up, failAt)} :
                        /\ kv' = r.kv
                        /\ IF r.err # NoErr
                           THEN /\ pc'[c] = "idle"
                                /\ resp'.client = c
                                /\ resp'.status = StatusNotFound
                                /\ resp'.err = "prefetch failed: " \o r.err
                                /\ resp'.call.rereads = cur[c].rereads
                           ELSE /\ pc'[c] = "loop"
                                /\ cur'[c].key = cur[c].key
                                /\ cur'[c].hint = lastHint
                                /\ cur'[c].rereads = Min(cur[c].rereads + 1, 2)
                                /\ \E ioerr \in BOOLEAN :
                                     LET g == KVGet(kv', cur[c].key, ioerr)
                                     IN  /\ cur'[c].pre = g.pre
                                         /\ cur'[c].err = g.err
            ELSE /\ pc'[c] = "idle"
                 /\ kv' = kv
                 /\ resp'.client = c
                 /\ resp'.err = cur[c].err
                 /\ resp'.call.rereads = cur[c].rereads
                 /\ resp'.call.prefetched = cur[c].prefetched
                 /\ cur[c].err = NoErr =>
                        resp'.status = StatusOK /\ resp'.body = cur[c].pre
      ]_vars

\* A miss that a prefetch under the last hint and one more read of the store
\* turned into a hit.
C1_Witness ==
    /\ resp.path = "dehash"
    /\ resp.status = StatusOK
    /\ resp.call.prefetched
    /\ resp.call.rereads = 1

\* C2: every GetPreimage call returns.
C2_GetPreimageTerminates ==
    \A c \in Clients : (pc[c] = "loop") ~> (pc[c] = "idle")

\* C3: a GetPreimage call of a client is prefetched only under the hint that
\* same client sent last.
C3_PrefetchUnderOwnHint ==
    \A c \in Clients :
        (pc[c] = "loop" /\ cur[c].prefetched) => cur[c].hint = sent[c]

\* C4: a request for the local key of index 1 is answered 200 with the
\* configured L1 head.
C4_LocalKeyFromLocalSource ==
    (resp.path = "dehash" /\ resp.arg = HexEncode(LocalIndexKey(1))) =>
        (resp.status = StatusOK /\ resp.body = cfg.L1Head)

\* C5: LocalPreimageSource.Get returns the 32 bytes of the configured L1 head
\* exactly for the key of local index 1 (tag 1, index 1) and ErrNotFound for
\* every other key, whatever the store holds and whatever was hinted or
\* requested before.
C5_LocalSourceGet ==
    localRes # NoLocal =>
        IF localRes.key[1] = 1
           /\ SubSeq(localRes.key, 2, HashLength) = Zeros(30) \o <<1>>
        THEN /\ localRes.err = NoErr
             /\ localRes.pre = cfg.L1Head
             /\ Len(localRes.pre) = 32
        ELSE /\ localRes.err = ErrNotFound
             /\ localRes.pre = <<>>

\* The local source has answered the key of local index 1 with the L1 head
\* after a hint was recorded and the store filled.
C5_Witness ==
    /\ localRes # NoLocal
    /\ localRes.key = LocalIndexKey(1)
    /\ localRes.err = NoErr
    /\ localRes.pre = cfg.L1Head
    /\ lastHint # ""
    /\ kv # EmptyKV

\* C6: /dehash/ answers 400 to every key that is not hex or not 32 bytes,
\* and otherwise 200 with the value or 404, after a lookup under the
\* received key with its first byte set to 2.
C6_DehashStatus ==
    resp.path = "dehash" =>
        LET dec == HexDecodeString(resp.arg)
        IN  IF dec.err # NoErr \/ Len(dec.bytes) # 32
            THEN resp.status = StatusBadRequest
            ELSE /\ resp.status \in {StatusOK, StatusNotFound}
                 /\ resp.call.key = <<2>> \o SubSeq(dec.bytes, 2, 32)
                 /\ resp.status = StatusOK =>
                        /\ resp.call.key \in DOMAIN kv
                        /\ resp.body = kv[resp.call.key]

\* C7: /hint/ answers ok only to well-formed hints of a recognised type, and
\* no other hint is ever recorded as the last hint.
C7_HintValidation ==
    /\ resp.path = "hint" =>
          (resp.status = StatusOK <=> WellFormedHint(resp.arg))
    /\ resp.path = "hint" => resp.status \in {StatusOK, StatusBadRequest}
    /\ lastHint # "" => WellFormedHint(lastHint)

\* C8: Prefetcher.Hint(s) sets the last hint to s, whatever it was, and
\* changes neither the store nor any GetPreimage call (it makes no upstream
\* call).
C8_HintOnlyRecords ==
    [][(/\ FetchingEnabled(cfg)
        /\ resp'.path = "hint"
        /\ resp'.status = StatusOK
        /\ (resp' # resp \/ sent' # sent))
       => (/\ lastHint' = resp'.arg
           /\ kv' = kv
           /\ cur' = cur
           /\ pc' = pc)]_vars

\* A hint has replaced the different hint another client had recorded.
C8_Witness ==
    /\ FetchingEnabled(cfg)
    /\ resp.path = "hint"
    /\ resp.status = StatusOK
    /\ lastHint = resp.arg
    /\ \E c \in Clients : c # resp.client /\ sent[c] \notin {"", lastHint}

\* C9: with the l1-block-header hint for block hash H recorded and the
\* keccak key of H missing, the get_preimage of that key fetches the header
\* upstream and, the upstream serving it and the store taking it, has the
\* header's RLP stored and read back; a get_preimage of the key once it is
\* stored reads the same bytes from the store with no prefetch and no
\* upstream call; and either call returns 200 with the bytes it read.
C9_MissThenHit ==
    [][\A c \in Clients :
        /\ (/\ pc[c] = "loop"
            /\ cur[c].key = HeaderKey
            /\ cur[c].err = ErrNotFound
            /\ lastHint = HeaderHint
            /\ cur'[c] # cur[c])
           => /\ Outcome(c).fetched
              /\ Outcome(c).up \in L1Modes \cup TrustedModes
              /\ (Outcome(c).up = "ok" /\ nfault' = nfault) =>
                    /\ pc'[c] = "loop"
                    /\ cur'[c].err = NoErr
                    /\ cur'[c].pre = HeaderRLP1
                    /\ HeaderKey \in DOMAIN kv'
                    /\ kv'[HeaderKey] = HeaderRLP1
        /\ (/\ FetchingEnabled(cfg)
            /\ pc[c] = "idle"
            /\ pc'[c] = "loop"
            /\ cur'[c].key = HeaderKey
            /\ HeaderKey \in DOMAIN kv
            /\ nfault' = nfault)
           => /\ cur'[c].err = NoErr
              /\ cur'[c].pre = kv[HeaderKey]
              /\ ~cur'[c].prefetched
              /\ ~cur'[c].fetched
              /\ kv' = kv
        /\ (/\ pc[c] = "loop"
            /\ cur[c].key = HeaderKey
            /\ cur[c].err = NoErr
            /\ cur'[c] # cur[c])
           => /\ resp'.client = c
              /\ resp'.status = StatusOK
              /\ resp'.body = cur[c].pre
              /\ resp'.call.fetched = cur[c].fetched
              /\ kv' = kv
      ]_vars

\* One client's get_preimage of the header key was answered with the header
\* after an upstream fetch, and another get_preimage of the same key has
\* read the same bytes from the store alone.
C9_Witness ==
    /\ resp.path = "dehash"
    /\ resp.call.key = HeaderKey
    /\ resp.call.fetched
    /\ resp.status = StatusOK
    /\ resp.body = HeaderRLP1
    /\ \E c \in Clients :
          /\ c # resp.client
          /\ pc[c] = "loop"
          /\ cur[c].key = HeaderKey
          /\ cur[c].err = NoErr
          /\ cur[c].pre = resp.body
          /\ ~cur[c].prefetched
          /\ ~cur[c].fetched

\* On store, for every hint and every answer of the upstream, a second run
\* of prefetch right after a first makes the same upstream calls, returns the
\* same error and leaves the store the first run left.
IdempotentOn(store) ==
    \A h \in HintInputs : \A up \in UpstreamAnswers(h) :
        \E r1 \in {prefetch(store, h, up, 0)} :
        \E r2 \in {prefetch(r1.kv, h, up, 0)} :
            /\ r2.kv = r1.kv
            /\ r2.err = r1.err
            /\ r2.calls = r1.calls

\* C10: prefetch is idempotent on every store the server reaches: the store
\* it starts with and every store a step leaves. Two runs of prefetch under
\* the same hint and upstream answer leave what one run leaves and return
\* the same outcome.
C10_PrefetchIdempotent ==
    IdempotentOn(kv) /\ [][kv' # kv => IdempotentOn(kv')]_vars

\* A GetPreimage call has run prefetch twice under the same hint, and the
\* store is what one more run leaves.
C10_Witness ==
    \E c \in Clients :
        /\ pc[c] = "loop"
        /\ cur[c].rereads = 2
        /\ cur[c].hint = lastHint
        /\ cur[c].up = "ok"
        /\ kv # EmptyKV
        /\ prefetch(kv, lastHint, "ok", 0).kv = kv

\* A Put is content-addressed when its key carries another tag than
\* Keccak256KeyType, or the low 31 bytes of its key are those of the
\* keccak256 of its value.
ContentAddressed(put) ==
    (Len(put.key) > 0 /\ put.key[1] = Keccak256KeyType) =>
        /\ Len(put.key) = HashLength
        /\ SubSeq(put.key, 2, HashLength) =
               SubSeq(Keccak256Hash(put.value), 2, HashLength)

\* C11: every Put of a prefetch, under every hint and every answer of the
\* upstream, whose key carries the Keccak256 tag has as the low 31 bytes of
\* its key the low 31 bytes of the keccak256 of its value.
C11_ContentAddressing ==
    \A i \in 1..Len(run.puts) : ContentAddressed(run.puts[i])

\* C12: the store is monotonic: a step of the server, whatever the session
\* it serves, leaves every key of the store in the store with the value it
\* had.
C12_StoreMonotonic ==
    [][\A k \in DOMAIN kv : k \in DOMAIN kv' /\ kv'[k] = kv[k]]_vars

\* The keys a prefetch run on its own has added to the store it started on.
NewKeys == (DOMAIN run.res.kv) \ (DOMAIN run.before)

\* The blob key of field element i of the sidecar of the model and its hash.
blobKey(i) == KZGCommitment1 \o Zeros(24) \o PutUint64(i)

blobKeyHash(i) == Keccak256Hash(blobKey(i))

\* C13: after a successful l1-blob prefetch on a store holding none of its
\* keys the store has exactly 1 + 2*N new keys, N the number of field
\* elements: the sha256 key of the versioned hash holding the 48-byte
\* commitment and, for each index i, Keccak256(h_i) holding blobKey_i and
\* Blob(h_i) holding bytes [32*i, 32*(i+1)) of the blob; the blob-tagged
\* values in index order make up the sidecar's blob.
C13_BlobExpansion ==
    (run.n >= 1 /\ run.hint = BlobHint /\ run.res.err = NoErr) =>
        /\ Cardinality(NewKeys) = 1 + 2 * FieldElementsPerBlob
        /\ NewKeys =
              {Sha256Key(BlobVersionHash1)}
              \cup {Keccak256Key(blobKeyHash(i)) :
                        i \in 0..(FieldElementsPerBlob - 1)}
              \cup {BlobKey(blobKeyHash(i)) :
                        i \in 0..(FieldElementsPerBlob - 1)}
        /\ run.res.kv[Sha256Key(BlobVersionHash1)] = KZGCommitment1
        /\ Len(KZGCommitment1) = 48
        /\ \A i \in 0..(FieldElementsPerBlob - 1) :
              /\ Len(blobKey(i)) = 80
              /\ run.res.kv[Keccak256Key(blobKeyHash(i))] = blobKey(i)
              /\ run.res.kv[BlobKey(blobKeyHash(i))] =
                    SubSeq(Blob1, 32 * i + 1, 32 * (i + 1))
        /\ Len(Blob1) = 32 * FieldElementsPerBlob
        /\ \A j \in 1..Len(Blob1) :
              Blob1[j] = run.res.kv[BlobKey(blobKeyHash((j - 1) \div 32))]
                                   [((j - 1) % 32) + 1]

\* An l1-blob prefetch has succeeded on a store that held the header only,
\* and the store has grown.
C13_Witness ==
    /\ run.n >= 1
    /\ run.hint = BlobHint
    /\ run.up = "ok"
    /\ run.res.err = NoErr
    /\ run.before = PrepopulatedKV
    /\ Len(run.puts) >= 1 + 2 * FieldElementsPerBlob
    /\ BlobKey(blobKeyHash(FieldElementsPerBlob - 1)) \in NewKeys

\* The input bytes of the l1-kzg-point-evaluation hint of a run.
KZGInput == IF run.hint = ValidKZGHint THEN ValidKZGInput ELSE GarbageKZGInput

\* C14: an l1-kzg-point-evaluation prefetch, its input valid or garbage,
\* makes no upstream call and returns no error but that of a failing Put;
\* with h the keccak256 of the input it writes the input under Keccak256(h)
\* and under KZGEval(h) the byte 1 when the precompile accepts the input and
\* the byte 0 when it rejects it.
C14_KZGPrefetch ==
    (run.n >= 1 /\ run.hint \in {KZGHint, ValidKZGHint}) =>
        /\ run.res.calls = 0
        /\ run.res.err \in {NoErr, "io"}
        /\ run.res.err = "io" => Len(run.puts) < 2 * run.n
        /\ run.res.err = NoErr =>
              /\ SubSeq(run.puts, Len(run.puts) - 1, Len(run.puts)) =
                    <<[key |-> Keccak256Key(Keccak256Hash(KZGInput)),
                       value |-> KZGInput],
                      [key |-> KZGPointEvaluationKey(Keccak256Hash(KZGInput)),
                       value |-> IF run.hint = ValidKZGHint THEN <<1>>
                                 ELSE <<0>>]>>
              /\ run.res.kv[Keccak256Key(Keccak256Hash(KZGInput))] = KZGInput
              /\ run.res.kv[KZGPointEvaluationKey(Keccak256Hash(KZGInput))] =
                    IF run.hint = ValidKZGHint THEN <<1>> ELSE <<0>>

\* A prefetch under a hint with garbage input has returned nil with the
\* upstream down, and the store holds the byte 0 under the KZGEval key.
C14_Witness ==
    /\ run.n >= 1
    /\ run.hint = KZGHint
    /\ run.up = "down"
    /\ run.res.err = NoErr
    /\ run.res.calls = 0
    /\ KZGPointEvaluationKey(Keccak256Hash(GarbageKZGInput)) \in NewKeys
    /\ run.res.kv[KZGPointEvaluationKey(Keccak256Hash(GarbageKZGInput))] = <<0>>

\* The encoded items the trie of a run's hint is built over.
TrieValues ==
    IF run.hint = TransactionsHint THEN EncodeItems(BlockTxs)
    ELSE EncodeItems(BlockReceipts)

\* The key of the root of the trie over values, and the key the root node
\* names for its i-th child.
TrieRootKey(values) == Keccak256Key(Keccak256Hash(WriteTrie(values)[1]))

TrieChildKey(rootNode, i) ==
    Keccak256Key(SubSeq(rootNode, 2 + HashLength * (i - 1), 1 + HashLength * i))

\* C15: after a successful l1-transactions or l1-receipts prefetch a get
\* finds every key the prefetch wrote with the value written, every node of
\* the trie over index -> encoded item is stored under its keccak key, and
\* the trie is walked in the store from its root to the leaf of every item.
C15_TrieClosure ==
    (/\ run.n >= 1
     /\ run.hint \in {TransactionsHint, ReceiptsHint}
     /\ run.res.err = NoErr) =>
        /\ \A i \in 1..Len(run.puts) :
              KVGet(run.res.kv, run.puts[i].key, FALSE) =
                  [pre |-> run.puts[i].value, err |-> NoErr]
        /\ \A i \in 1..Len(WriteTrie(TrieValues)) :
              KVGet(run.res.kv,
                    Keccak256Key(Keccak256Hash(WriteTrie(TrieValues)[i])),
                    FALSE).pre = WriteTrie(TrieValues)[i]
        /\ TrieRootKey(TrieValues) \in DOMAIN run.res.kv
        /\ \E rootNode \in {run.res.kv[TrieRootKey(TrieValues)]} :
              IF Len(TrieValues) = 1
              THEN rootNode = TrieLeaf(0, TrieValues[1])
              ELSE \A i \in 1..Len(TrieValues) :
                      /\ TrieChildKey(rootNode, i) \in DOMAIN run.res.kv
                      /\ run.res.kv[TrieChildKey(rootNode, i)] =
                            TrieLeaf(i - 1, TrieValues[i])

\* An l1-receipts prefetch has succeeded on an empty store with one upstream
\* call, and the store holds the root of the receipts trie.
C15_Witness ==
    /\ run.n >= 1
    /\ run.hint = ReceiptsHint
    /\ run.up = "ok"
    /\ run.res.err = NoErr
    /\ run.res.calls = 1
    /\ run.before = EmptyKV
    /\ TrieRootKey(EncodeItems(BlockReceipts)) \in NewKeys
    /\ Cardinality(NewKeys) = MaxTxs + 1

\* C16: a retrying upstream call makes at most MaxAttempts attempts; every
\* attempt but the last ended in a transient error; it returns as soon as
\* an attempt succeeds or ends in a deterministic error, so a deterministic
\* error on the first attempt is returned after that one attempt and two
\* transient errors and a success make three attempts and a nil error.
C16_RetryingUpstream ==
    /\ Len(retry.calls) <= MaxAttempts
    /\ \A i \in 1..(Len(retry.calls) - 1) : retry.calls[i] = "transient"
    /\ \A i \in 1..Len(retry.calls) :
          retry.calls[i] # "transient" =>
              /\ retry.phase = "done"
              /\ retry.err = IF retry.calls[i] = "ok" THEN NoErr
                              ELSE "deterministic"
    /\ (retry.phase = "done" /\ retry.op # "") =>
          /\ Len(retry.calls) >= 1
          /\ retry.err = NoErr <=> retry.calls[Len(retry.calls)] = "ok"
          /\ retry.err = "transient" => Len(retry.calls) = MaxAttempts
    /\ retry.phase = "sleep" =>
          retry.delay >= 1 /\ retry.delay <= MaxDelay

\* A call has returned nil after two transient errors and a success.
C16_Witness ==
    /\ retry.op = "InfoByHash"
    /\ retry.calls = <<"transient", "transient", "ok">>
    /\ retry.phase = "done"
    /\ retry.err = NoErr

C18_DiskPutAtomic ==
    /\ \A g \in disk.got :
          \/ g = [pre |-> disk.v, err |-> NoErr]
          \/ IF disk.before.exists
             THEN g = [pre |-> disk.before.data, err |-> NoErr]
             ELSE g = [pre |-> <<>>, err |-> ErrNotFound]
    /\ disk.pc = "interrupted" => disk.file = disk.before
    /\ disk.pc # "done" => disk.file = disk.before
    /\ disk.pc = "done" => disk.file = File(disk.v)

\* Gets of a key that had no file have returned ErrNotFound while the put
\* was writing its temporary file and the whole value after the rename.
C18_Witness ==
    /\ disk.pc = "done"
    /\ disk.v = <<10, 20, 30>>
    /\ disk.before = NoFile
    /\ disk.got = {[pre |-> <<>>, err |-> ErrNotFound],
                   [pre |-> disk.v, err |-> NoErr]}

\* C19: once Main has run, the error it returned is ErrInvalidL1Head for
\* an all-zero L1 head; else ErrDataDirRequired for no L1 URL and no data
\* directory; else ErrNoExecInServerMode for server mode with an exec
\* command; and nil for every other configuration. Main has started a
\* preimage server exactly when the error is nil.
C19_ConfigCheck ==
    main.pc # "start" =>
        /\ main.err =
              IF cfg.L1Head = [i \in 1..32 |-> 0] THEN "ErrInvalidL1Head"
              ELSE IF cfg.L1URL = "" /\ cfg.DataDir = ""
              THEN "ErrDataDirRequired"
              ELSE IF cfg.ServerMode /\ cfg.ExecCmd # ""
              THEN "ErrNoExecInServerMode"
              ELSE NoErr
        /\ main.err # NoErr => main.pc = "exited" /\ main.store = ""
        /\ main.err = NoErr => main.pc = "serving" /\ main.store # ""

\* Main has returned ErrInvalidL1Head for a configuration that also has no
\* L1 URL, no data directory and an exec command in server mode.
C19_Witness ==
    /\ main.pc = "exited"
    /\ main.err = "ErrInvalidL1Head"
    /\ cfg.L1Head = ZeroHash
    /\ cfg.L1URL = ""
    /\ cfg.DataDir = ""
    /\ cfg.ServerMode
    /\ cfg.ExecCmd # ""

\* What an offline server answers and holds: no hint is recorded, no call
\* of GetPreimage is pending, a recognised hint is answered with 200, and
\* the answer to /dehash/ is that of one get of the store, made with no
\* prefetch and no upstream call: the value held under the key, and
\* ErrNotFound when the store holds none.
OfflineAnswer ==
    /\ lastHint = ""
    /\ \A c \in Clients : pc[c] = "idle" /\ cur[c] = NoCall
    /\ (resp.path = "hint" /\ resp.arg \in RecognisedHints) =>
          resp.status = StatusOK
    /\ (resp.path = "dehash" /\ resp.status \in {StatusOK, StatusNotFound}) =>
          /\ ~resp.call.prefetched
          /\ ~resp.call.fetched
          /\ resp.call.hint = ""
          /\ resp.err \in {NoErr, ErrNotFound, "io"}
          /\ resp.err = NoErr =>
                /\ resp.call.key \in DOMAIN kv
                /\ resp.status = StatusOK
                /\ resp.body = kv[resp.call.key]
          /\ resp.err = ErrNotFound =>
                /\ resp.call.key \notin DOMAIN kv
                /\ resp.status = StatusNotFound
          /\ (resp.call.key \notin DOMAIN kv /\ resp.err # "io") =>
                resp.err = ErrNotFound

\* C20: a server with no L1 URL accepts hints and ignores them (no step
\* changes the recorded hint or the store), answers get_preimage with a
\* plain get of the store and no upstream call, and answers a missing key
\* with ErrNotFound whatever hints were sent before.
C20_OfflineMode ==
    /\ [](cfg.L1URL = "" => OfflineAnswer)
    /\ [][cfg.L1URL = "" => (kv' = kv /\ lastHint' = lastHint)]_vars

\* An offline server with an empty store has accepted an l1-block-header
\* hint and then answered the /dehash/ of the header's key with 404.
C20_Witness ==
    /\ cfg.L1URL = ""
    /\ kv = EmptyKV
    /\ \E c \in Clients : sent[c] = HeaderHint
    /\ resp.path = "dehash"
    /\ resp.call.key = HeaderKey
    /\ resp.status = StatusNotFound
    /\ resp.err = ErrNotFound

\* C21: a /dehash/ request whose get of the store failed with an I/O error
\* is answered with status 500, not with the 404 of a missing key.
C21_IOErrorIs500 ==
    (resp.path = "dehash" /\ resp.err = "io") =>
        resp.status = 500 /\ resp.status # StatusNotFound

\* C22: after a prefetch call either the call returned nil and every key
\* of the hint's decomposition is in the store, or it returned an error and
\* the store is as it was before the call.
C22_PrefetchAtomic ==
    run.n = 1 =>
        IF run.res.err = NoErr
        THEN \A i \in 1..Len(PrefetchPlans[run.hint][run.up].puts) :
                 PrefetchPlans[run.hint][run.up].puts[i].key
                     \in DOMAIN run.res.kv
        ELSE run.res.kv = run.before

\* C23: prefetch of an l1-block-header, l1-transactions or l1-receipts hint
\* whose payload is not 32 bytes long, or of an l1-blob hint whose payload
\* is not 48 bytes long, returns an error, makes no upstream call and
\* leaves the store as it was.
C23_PayloadLength ==
    (/\ run.n >= 1
     /\ run.hint \in {ShortHeaderHint, LongTransactionsHint,
                       EmptyReceiptsHint, ShortBlobHint, LongBlobHint}) =>
        /\ run.res.err # NoErr
        /\ run.res.calls = 0
        /\ run.res.kv = run.before
        /\ run.puts = <<>>

\* A prefetch of an l1-blob hint with a payload of 49 bytes has returned its
\* error on a store holding the header, the upstream ready to answer.
C23_Witness ==
    /\ run.n >= 1
    /\ run.hint = LongBlobHint
    /\ run.up = "ok"
    /\ run.before = PrepopulatedKV
    /\ run.res.err = "invalid blob hint"
    /\ run.res.calls = 0

\* Hints parseHint or the switch of prefetch refuses: no separator, a
\* payload that is not 0x-prefixed hex, a type that is none of the five.
NoSeparatorHints == {HintL1Blob, HintL1KZGPointEvaluation}

BadPayloadHints ==
    {HintL1BlockHeader \o " 0xzz", HintL1KZGPointEvaluation \o " 0xzz",
     HintL1KZGPointEvaluation \o " dead"}

UnknownTypeHints == {"unknown 0xdead", "x" \o HintL1Receipts \o " 0x00"}

\* On store, prefetch under each of these hints and every answer of the
\* upstream returns an error, calls no upstream and leaves the store; the
\* error of an unknown type names the type as it was sent.
RefusedOn(store) ==
    /\ \A h \in NoSeparatorHints \cup BadPayloadHints \cup UnknownTypeHints :
       \A up \in UpstreamModes :
       \E r \in {prefetch(store, h, up, 0)} :
           r.err # NoErr /\ r.calls = 0 /\ r.kv = store
    /\ prefetch(store, "unknown 0xdead", "ok", 0).err =
           "unknown hint type: unknown"
    /\ prefetch(store, "x" \o HintL1Receipts \o " 0x00", "ok", 0).err =
           "unknown hint type: x" \o HintL1Receipts

\* C24: prefetch returns an error, makes no upstream call and leaves the
\* store unchanged for every hint with no single-space separator, with a
\* payload that is not 0x-prefixed hex, or with a type that is none of the
\* five (the error naming the type as sent); and a GetPreimage that misses
\* with such a hint recorded returns a "prefetch failed" error.
C24_MalformedHint ==
    /\ RefusedOn(kv)
    /\ [][kv' # kv => RefusedOn(kv')]_vars
    /\ [][\A c \in Clients :
            (/\ pc[c] = "loop"
             /\ cur[c].err = ErrNotFound
             /\ lastHint \in NoSeparatorHints \cup BadPayloadHints
                               \cup UnknownTypeHints
             /\ cur'[c] # cur[c])
            => /\ pc'[c] = "idle"
               /\ resp'.client = c
               /\ resp'.status = StatusNotFound
               /\ SubSeq(resp'.err, 1, 17) = "prefetch failed: "
               /\ resp'.call.fetched = cur[c].fetched
               /\ kv' = kv]_vars

\* A miss under a recorded hint with no separator has been answered with
\* the error of parseHint wrapped in "prefetch failed".
C24_Witness ==
    /\ resp.path = "dehash"
    /\ resp.call.hint = HintL1Blob
    /\ resp.call.prefetched
    /\ resp.err = "prefetch failed: unsupported hint"
    /\ resp.status = StatusNotFound

\* C25: an l1-blob prefetch makes one upstream call, for the versioned
\* hash, index and timestamp of its hint, and returns an error with nothing
\* written when the upstream returns an error, no sidecar or several: so
\* when the upstream is down or answers with none or two, and when the hint
\* names an index the upstream has no blob at.
C25_OneSidecar ==
    (/\ run.n >= 1
     /\ \/ run.hint = BlobHint /\ run.up \in {"down", "nosidecar", "twosidecars"}
        \/ run.hint = OtherIndexBlobHint) =>
        /\ run.res.err # NoErr
        /\ run.res.calls = 1
        /\ run.puts = <<>>
        /\ run.res.kv = run.before

\* An l1-blob prefetch has returned an error after the upstream answered
\* its one call with two sidecars.
C25_Witness ==
    /\ run.n >= 1
    /\ run.hint = BlobHint
    /\ run.up = "twosidecars"
    /\ run.res.err = "failed to fetch blob sidecars"
    /\ run.res.calls = 1
    /\ run.res.kv = run.before

C27_GetKeepsHint ==
    [][\A c \in Clients :
        (pc'[c] # pc[c] \/ cur'[c] # cur[c]
            \/ (resp' # resp /\ resp'.client = c /\ resp'.path = "dehash")) =>
            /\ lastHint' = lastHint
            /\ (/\ pc[c] = "loop"
                /\ cur[c].err = ErrNotFound
                /\ lastHint # "") =>
                   /\ Outcome(c).prefetched
                   /\ Outcome(c).hint = lastHint
      ]_vars

\* A call asking for a key the header hint does not provide has run
\* prefetch twice under that hint, still recorded, the header in the store.
C27_Witness ==
    \E c \in Clients :
        /\ pc[c] = "loop"
        /\ cur[c].key # HeaderKey
        /\ cur[c].err = ErrNotFound
        /\ cur[c].hint = HeaderHint
        /\ cur[c].rereads = 2
        /\ lastHint = HeaderHint
        /\ HeaderKey \in DOMAIN kv

\* C28: a round of monitorGames calls fetchBlockNumber, fetchBlockHash,
\* extract, delays, detect and forecast in this order, each at most once; a
\* round in which one of the first three fails ends with that error and with
\* none of the later calls made; and the loop is back at its select after a
\* failed round, where the next tick starts another round.
C28_MonitorRound ==
    /\ [](\A l \in Loops :
            /\ mon.loops[l].ran =
                  SubSeq(MonitorSteps, 1, Len(mon.loops[l].ran))
            /\ (mon.loops[l].pc \in {"select", "exited"}
                /\ mon.loops[l].err # NoErr) =>
                  /\ Len(mon.loops[l].ran) \in 1..3
                  /\ mon.loops[l].err =
                        StepError(MonitorSteps[Len(mon.loops[l].ran)])
            /\ (mon.loops[l].pc \in {"select", "exited"}
                /\ mon.loops[l].err = NoErr) =>
                  mon.loops[l].ran \in {<<>>, MonitorSteps})
    /\ [][\A l \in Loops :
            /\ (mon.loops[l].pc \in FallibleSteps
                /\ mon'.loops[l].err # NoErr
                /\ mon'.loops[l] # mon.loops[l]) =>
                  /\ mon'.loops[l].pc = "select"
                  /\ mon'.loops[l].err = StepError(mon.loops[l].pc)
            /\ (mon.loops[l].pc = "select" /\ mon.loops[l].err # NoErr
                /\ mon'.loops[l] # mon.loops[l]) =>
                  \/ mon'.loops[l].pc = "fetchBlockNumber"
                  \/ mon'.loops[l].pc = "exited" /\ mon.done = "closed"]_vars

\* A loop whose round failed at extract has begun another round on the next
\* tick, beside a loop that has made all six calls of a round.
C28_Witness ==
    /\ mon.loops[1].pc = "fetchBlockNumber"
    /\ mon.loops[1].err = StepError("extract")
    /\ mon.loops[2].pc = "select"
    /\ mon.loops[2].ran = MonitorSteps

\* C29: StartMonitoring called again does not replace the context and the
\* cancel function of the first call, at most one loop runs at a time
\* whatever the StartMonitoring and StopMonitoring calls, and StopMonitoring
\* never fails, called twice or before any start.
C29_SingleLoop ==
    /\ (mon.cancel # 0 /\ mon.done = "open") => mon.cancel = mon.first
    /\ Cardinality({l \in Loops :
                      mon.loops[l].pc \notin {"none", "exited"}}) <= 1
    /\ ~mon.panicked

\* C30: minGameTimestamp is 0 under a zero game window or a clock not past
\* the window, the clock less the window otherwise; the unsigned result does
\* not wrap around and is at most the current Unix time.
C30_MinGameTimestamp ==
    mon.extracted =>
        /\ (mon.gameWindow = 0 \/ Unix(mon.now) <= WholeSeconds(mon.gameWindow))
              => mon.minTimestamp = 0
        /\ ~(mon.gameWindow = 0 \/ Unix(mon.now) <= WholeSeconds(mon.gameWindow))
              => mon.minTimestamp = Unix(mon.now - mon.gameWindow)
        /\ mon.minTimestamp <= Unix(mon.now)

\* The state of a game that its calls change.
GameState(g) == <<g.initialized, g.claims, g.steps>>

\* C31: a step or a move by a caller that is neither PROPOSER nor CHALLENGER
\* reverts with BadAuth and leaves the game as it was, and one by PROPOSER or
\* CHALLENGER does not revert with BadAuth; an initialize of a transaction
\* whose origin is not PROPOSER reverts with BadAuth and leaves the game as it
\* was, and one whose origin is PROPOSER does not revert with BadAuth.
C31_AccessControl ==
    [][game' # game =>
        /\ game'.last.fn \in {"step", "move"} =>
              IF game'.last.sender \in {game.PROPOSER, game.CHALLENGER}
              THEN game'.last.revert # BadAuth
              ELSE /\ game'.last.revert = BadAuth
                   /\ GameState(game') = GameState(game)
        /\ game'.last.fn = "initialize" =>
              IF game'.last.origin = game.PROPOSER
              THEN game'.last.revert # BadAuth
              ELSE /\ game'.last.revert = BadAuth
                   /\ GameState(game') = GameState(game)
        /\ GameState(game') # GameState(game) => game'.last.revert = NoErr
        /\ game'.PROPOSER = game.PROPOSER
        /\ game'.CHALLENGER = game.CHALLENGER]_vars

\* A game the factory initialized in a transaction of the proposer, with a
\* move of the challenger made and a step countering it, refuses a move by
\* another account.
C31_Witness ==
    /\ game.PROPOSER = "proposer"
    /\ game.CHALLENGER = "challenger"
    /\ game.initialized
    /\ game.claims = 1
    /\ game.steps = 1
    /\ game.last = [fn |-> "move", sender |-> "other", origin |-> "other",
                    revert |-> BadAuth]

\* What C32 says of GetInput and of the round trip: with verification on, an
\* input is returned only when its keccak256 is the key, and an answer whose
\* body has another hash gives ErrCommitmentMismatch; a 404 gives ErrNotFound;
\* and a get from a service that stored every input it answered 200 to, which
\* serves what it holds, returns the input SetInput gave the key for.
GetInputChecked ==
    da.last.op = "get" =>
        /\ (da.verify /\ da.last.err = NoErr) =>
              Keccak256(da.last.out) = da.last.arg
        /\ (da.verify /\ da.last.answer # NoAnswer
            /\ da.last.answer.status # StatusNotFound
            /\ Keccak256(da.last.answer.body) # da.last.arg) =>
              /\ da.last.err = ErrCommitmentMismatch
              /\ da.last.out = <<>>
        /\ (da.last.answer # NoAnswer
            /\ da.last.answer.status = StatusNotFound) =>
              da.last.err = PlasmaErrNotFound
        /\ (da.faithful /\ da.last.mode = "serve") =>
              \A img \in da.committed :
                  da.last.arg = Keccak256(img) =>
                      /\ da.last.out = img
                      /\ da.last.err = NoErr

====
